---- MODULE Spec2Model ----
(***************************************************************************)
(* Shader compilation and caching pipeline of XeSSEngine:                  *)
(*   ShaderCache     (memory tier + on-disk records)                       *)
(*   ShaderCompiler  (DXC / legacy D3DCompiler selection, cache use)       *)
(* modelled from src/Graphics/ShaderCompiler/ShaderCompiler.cpp and its    *)
(* header src/unnamed/part_004.                                            *)
(***************************************************************************)
EXTENDS Integers, Sequences, FiniteSets, TLC

(***************************************************************************)
(* uint64 arithmetic.  A uint64 is four 16-bit limbs, least significant    *)
(* first, so that every intermediate value stays inside TLC's integers and *)
(* the results are exact modulo 2^64.                                      *)
(***************************************************************************)
W == 2^16

U64(n) == <<n % W, (n \div W) % W, 0, 0>>

Add64(a, b) ==
    LET s1 == a[1] + b[1]
        s2 == a[2] + b[2] + (s1 \div W)
        s3 == a[3] + b[3] + (s2 \div W)
        s4 == a[4] + b[4] + (s3 \div W)
    IN  <<s1 % W, s2 % W, s3 % W, s4 % W>>

\* unsigned 32-bit addition (result widened to uint64 afterwards)
Add32(a, b) ==
    LET s1 == a[1] + b[1]
        s2 == a[2] + b[2] + (s1 \div W)
    IN  <<s1 % W, s2 % W, 0, 0>>

Shl6(a) ==
    << (a[1] * 64) % W,
       (a[2] * 64 + (a[1] \div 1024)) % W,
       (a[3] * 64 + (a[2] \div 1024)) % W,
       (a[4] * 64 + (a[3] \div 1024)) % W >>

Shr2(a) ==
    << (a[1] \div 4) + (a[2] % 4) * 16384,
       (a[2] \div 4) + (a[3] % 4) * 16384,
       (a[3] \div 4) + (a[4] % 4) * 16384,
       (a[4] \div 4) >>

RECURSIVE XorBits(_, _, _)
XorBits(x, y, n) ==
    IF n = 0 THEN 0
    ELSE (((x % 2) + (y % 2)) % 2) + 2 * XorBits(x \div 2, y \div 2, n - 1)

Xor64(a, b) == [i \in 1..4 |-> XorBits(a[i], b[i], 16)]

\* the literal 0x9e3779b9 (an unsigned 32-bit constant)
GoldenRatio == <<31161, 40503, 0, 0>>

\* a combining step that forgets the position: hash ^= term
HashCombineXor(hash, term) == Xor64(hash, term)

\* hash ^= term + (hash << 6) + (hash >> 2), term already holding v + 0x9e3779b9
HashCombine(hash, term) ==
    Xor64(hash, Add64(Add64(term, Shl6(hash)), Shr2(hash)))

(***************************************************************************)
(* ShaderModel, ShaderType, CompileOptions                                 *)
(***************************************************************************)
SM_5_0 == 80
SM_5_1 == 81
SM_6_0 == 96
SM_6_1 == 97
SM_6_2 == 98
SM_6_3 == 99
SM_6_4 == 100

ShaderModel == {SM_5_0, SM_5_1, SM_6_0, SM_6_1, SM_6_2, SM_6_3, SM_6_4}

ShaderType ==
    {"Vertex", "Hull", "Domain", "Geometry", "Pixel", "Compute",
     "Amplification", "Mesh", "RayGeneration", "Miss", "ClosestHit", "AnyHit"}

\* CompileOptions with the defaults of the struct
DefaultOptions ==
    [ targetModel                   |-> SM_6_4,
      macros                        |-> << >>,
      includePaths                  |-> << >>,
      enableDebugInfo               |-> FALSE,
      enableOptimization            |-> TRUE,
      warningsAsErrors              |-> FALSE,
      ieee754Compliance             |-> FALSE,
      enableUnboundedResourceArrays |-> FALSE,
      optimizationLevel             |-> 3 ]

ShaderMacro(n, d) == [name |-> n, definition |-> d]

(***************************************************************************)
(* std::hash<std::string> is implementation-defined; it is a fixed,        *)
(* collision-free table over the strings the model uses.                   *)
(***************************************************************************)
SourceTexts == {"float4 main() : SV_Target { return 1; }", "float4 main() : SV_Target { return 0; }"}

MacroNames == {"QUALITY", "DEBUG"}

MacroDefinitions == {"0", "1"}

MacroString(m) == m.name \o "=" \o m.definition

StringPool ==
    SourceTexts \cup {MacroString(ShaderMacro(n, d)) : n \in MacroNames, d \in MacroDefinitions}

RECURSIVE SetToSeq(_)
SetToSeq(S) ==
    IF S = {} THEN << >>
    ELSE LET e == CHOOSE e \in S : TRUE IN <<e>> \o SetToSeq(S \ {e})

\* the position of e in a sequence without repetitions
Index(seq, e) == CHOOSE i \in 1..Len(seq) : seq[i] = e

StringTable == SetToSeq(StringPool)

StdHash(s) ==
    LET i == Index(StringTable, s)
    IN  << (i * 40503 + 11) % W, (i * 31161 + 7) % W,
           (i * 12345 + 5) % W, (i * 54321 + 3) % W >>

BoolTerm(b) == Add32(U64(IF b THEN 1 ELSE 0), GoldenRatio)

RECURSIVE HashMacros(_, _)
HashMacros(hash, macros) ==
    IF macros = << >> THEN hash
    ELSE HashMacros(
            HashCombine(hash, Add64(StdHash(MacroString(Head(macros))), GoldenRatio)),
            Tail(macros))

CalculateSourceHash(source, options) ==
    LET h0 == StdHash(source)
        h1 == HashCombine(h0, Add64(U64(options.targetModel), GoldenRatio))
        h2 == HashCombine(h1, BoolTerm(options.enableDebugInfo))
        h3 == HashCombine(h2, BoolTerm(options.enableOptimization))
        h4 == HashCombine(h3, Add32(U64(options.optimizationLevel), GoldenRatio))
    IN  HashMacros(h4, options.macros)

(***************************************************************************)
(* File names.  A name is kept in the three parts std::filesystem::path    *)
(* splits it into; the empty string is the name with three empty parts.    *)
(***************************************************************************)
FileName(d, s, e) == [dir |-> d, stem |-> s, ext |-> e]

EmptyName == FileName("", "", "")

FullName(f) == f.dir \o f.stem \o f.ext

\* std::filesystem::path(filename).stem(): no directory, no extension
Stem(f) == f.stem

(***************************************************************************)
(* Byte sequences (std::vector<uint8>)                                     *)
(***************************************************************************)
MaxLen == 2

\* one bytecode of every length up to MaxLen
Bytecodes == {[i \in 1..n |-> n] : n \in 1..MaxLen}

\* std::vector::resize(n): keeps the prefix, fills with zeros
Resize(v, n) == [i \in 1..n |-> IF i <= Len(v) THEN v[i] ELSE 0]

(***************************************************************************)
(* Maps with a growing domain (std::unordered_map, the cache directory)    *)
(***************************************************************************)
EmptyMap == << >>

MapPut(m, k, v) == [x \in (DOMAIN m) \cup {k} |-> IF x = k THEN v ELSE m[x]]

(***************************************************************************)
(* ShaderCache: the on-disk record                                         *)
(***************************************************************************)
CACHE_VERSION == 1

CACHE_MAGIC == "XESS"

m_cacheDirectory == "cache/shaders/"

HexDigits == <<"0", "1", "2", "3", "4", "5", "6", "7", "8", "9", "a", "b", "c", "d", "e", "f">>

\* the 16 nibbles of a uint64, most significant first
Nibbles(h) ==
    [i \in 1..16 |->
        LET limb == h[4 - ((i - 1) \div 4)]
            pos  == 3 - ((i - 1) % 4)
        IN  (limb \div (16 ^ pos)) % 16]

RECURSIVE StripZeros(_)
StripZeros(ds) ==
    IF Len(ds) > 1 /\ Head(ds) = 0 THEN StripZeros(Tail(ds)) ELSE ds

RECURSIVE Concat(_)
Concat(ss) == IF ss = << >> THEN "" ELSE Head(ss) \o Concat(Tail(ss))

\* operator<< of a uint64 under std::hex: lower-case digits, no leading zeros
ToHex(h) == LET ds == StripZeros(Nibbles(h)) IN Concat([i \in 1..Len(ds) |-> HexDigits[ds[i] + 1]])

\* a cache file named after the shader alone
GetCacheFilePathOfName(filename, hash) == m_cacheDirectory \o Stem(filename) \o ".cache"

GetCacheFilePath(filename, hash) ==
    m_cacheDirectory \o Stem(filename) \o "_" \o ToHex(hash) \o ".cache"

\* a file of the cache directory: the header as far as it is on disk, and the
\* payload bytes that are on disk.  header = "truncated": the file ends inside
\* the four header fields, which are then not represented.  origin is not on
\* disk: it records the bytecode the writing CacheShader call was given.
CompleteFile(mg, ver, h, sz, pl, org) ==
    [header |-> "complete", magic |-> mg, version |-> ver, hash |-> h, size |-> sz, payload |-> pl,
     origin |-> org]

TruncatedFile(org) ==
    [header |-> "truncated", magic |-> "", version |-> 0, hash |-> U64(0), size |-> 0, payload |-> << >>,
     origin |-> org]

\* the outcomes of the file system calls of CacheShader: create_directories
\* throws, the ofstream does not open, or the two writes leave the header cut
\* short ("header cut") or the header and n payload bytes ("written")
Outcome(k, n) == [kind |-> k, n |-> n]

WriteOutcomes(bytecode) ==
    {Outcome(k, 0) : k \in {"create_directories throws", "open fails", "header cut"}}
        \cup {Outcome("written", n) : n \in 0..Len(bytecode)}

WriteFails(outcome) == outcome.kind \in {"create_directories throws", "open fails"}

\* what the two file.write calls of CacheShader leave on disk
WrittenFile(hash, bytecode, outcome) ==
    IF outcome.kind = "header cut" THEN TruncatedFile(bytecode)
    ELSE CompleteFile(CACHE_MAGIC, CACHE_VERSION, hash, Len(bytecode), SubSeq(bytecode, 1, outcome.n),
                      bytecode)

CacheEntry(bytecode, hash) == [bytecode |-> bytecode, hash |-> hash]

\* CacheShader without its memory cache update
CacheShaderDiskOnly(mem, dsk, filename, hash, bytecode, outcome) ==
    IF WriteFails(outcome)
    THEN [memoryCache |-> mem, disk |-> dsk, throws |-> FALSE]
    ELSE [memoryCache |-> mem, throws |-> FALSE,
          disk |-> MapPut(dsk, GetCacheFilePath(filename, hash), WrittenFile(hash, bytecode, outcome))]

\* CacheShader without its try block: the filesystem_error of
\* create_directories leaves the function
CacheShaderUncaught(mem, dsk, filename, hash, bytecode, outcome) ==
    IF WriteFails(outcome)
    THEN [memoryCache |-> mem, disk |-> dsk, throws |-> (outcome.kind = "create_directories throws")]
    ELSE [memoryCache |-> MapPut(mem, filename, CacheEntry(bytecode, hash)), throws |-> FALSE,
          disk |-> MapPut(dsk, GetCacheFilePath(filename, hash), WrittenFile(hash, bytecode, outcome))]

\* ShaderCache::CacheShader: the memory tier and the directory afterwards, and
\* whether an exception leaves the function (its catch block takes them all)
CacheShader(mem, dsk, filename, hash, bytecode, outcome) ==
    IF WriteFails(outcome)
    THEN [memoryCache |-> mem, disk |-> dsk, throws |-> FALSE]
    ELSE [memoryCache |-> MapPut(mem, filename, CacheEntry(bytecode, hash)), throws |-> FALSE,
          disk |-> MapPut(dsk, GetCacheFilePath(filename, hash), WrittenFile(hash, bytecode, outcome))]

\* the values an indeterminate CacheHeader can make the lookup see: the header
\* check fails, bytecode.resize throws on a huge size, or the check passes with
\* some size
Indeterminate ==
    {Outcome("mismatch", 0), Outcome("resize throws", 0)} \cup {Outcome("size", n) : n \in 0..MaxLen}

\* a payload read that stops one byte early
ReadPayloadShort(file, size, buffer) ==
    [i \in 1..size |-> IF i < size /\ i <= Len(file.payload) THEN file.payload[i] ELSE Resize(buffer, size)[i]]

\* the payload read: the bytes on disk, then what resize left
ReadPayload(file, size, buffer) ==
    [i \in 1..size |-> IF i <= Len(file.payload) THEN file.payload[i] ELSE Resize(buffer, size)[i]]

Miss(mem, buffer) == [ret |-> FALSE, bytecode |-> buffer, memoryCache |-> mem, tier |-> "none"]

\* GetCachedShader without the version test of its header check
GetCachedShaderAnyVersion(mem, dsk, filename, hash, buffer, opens, garbage) ==
    LET cachePath == GetCacheFilePath(filename, hash)
        file      == dsk[cachePath]
    IN  IF filename \in DOMAIN mem /\ mem[filename].hash = hash
        THEN [ret |-> TRUE, bytecode |-> mem[filename].bytecode, memoryCache |-> mem, tier |-> "memory"]
        ELSE IF cachePath \notin DOMAIN dsk THEN Miss(mem, buffer)
        ELSE IF ~opens THEN Miss(mem, buffer)
        ELSE IF file.header = "truncated"
        THEN IF garbage.kind # "size" THEN Miss(mem, buffer)
             ELSE [ret |-> TRUE, bytecode |-> Resize(buffer, garbage.n),
                   memoryCache |-> MapPut(mem, filename, CacheEntry(Resize(buffer, garbage.n), hash)),
                   tier |-> "disk"]
        ELSE IF file.magic # CACHE_MAGIC \/ file.hash # hash
        THEN Miss(mem, buffer)
        ELSE LET read == ReadPayload(file, file.size, buffer)
             IN  [ret |-> TRUE, bytecode |-> read,
                  memoryCache |-> MapPut(mem, filename, CacheEntry(read, hash)),
                  tier |-> "disk"]

\* a GetCachedShader for which the memory entry of a filename settles the lookup
GetCachedShaderOneFingerprint(mem, dsk, filename, hash, buffer, opens, garbage) ==
    LET cachePath == GetCacheFilePath(filename, hash)
        file      == dsk[cachePath]
    IN  IF filename \in DOMAIN mem
        THEN IF mem[filename].hash = hash
             THEN [ret |-> TRUE, bytecode |-> mem[filename].bytecode, memoryCache |-> mem, tier |-> "memory"]
             ELSE Miss(mem, buffer)
        ELSE IF cachePath \notin DOMAIN dsk THEN Miss(mem, buffer)
        ELSE IF ~opens THEN Miss(mem, buffer)
        ELSE IF file.header = "truncated"
        THEN IF garbage.kind # "size" THEN Miss(mem, buffer)
             ELSE [ret |-> TRUE, bytecode |-> Resize(buffer, garbage.n),
                   memoryCache |-> MapPut(mem, filename, CacheEntry(Resize(buffer, garbage.n), hash)),
                   tier |-> "disk"]
        ELSE IF file.magic # CACHE_MAGIC \/ file.version # CACHE_VERSION \/ file.hash # hash
        THEN Miss(mem, buffer)
        ELSE LET read == ReadPayload(file, file.size, buffer)
             IN  [ret |-> TRUE, bytecode |-> read,
                  memoryCache |-> MapPut(mem, filename, CacheEntry(read, hash)),
                  tier |-> "disk"]

\* GetCachedShader without the memory cache update after a disk read
GetCachedShaderNoStore(mem, dsk, filename, hash, buffer, opens, garbage) ==
    LET cachePath == GetCacheFilePath(filename, hash)
        file      == dsk[cachePath]
    IN  IF filename \in DOMAIN mem /\ mem[filename].hash = hash
        THEN [ret |-> TRUE, bytecode |-> mem[filename].bytecode, memoryCache |-> mem, tier |-> "memory"]
        ELSE IF cachePath \notin DOMAIN dsk THEN Miss(mem, buffer)
        ELSE IF ~opens THEN Miss(mem, buffer)
        ELSE IF file.header = "truncated"
        THEN IF garbage.kind # "size" THEN Miss(mem, buffer)
             ELSE [ret |-> TRUE, bytecode |-> Resize(buffer, garbage.n), memoryCache |-> mem, tier |-> "disk"]
        ELSE IF file.magic # CACHE_MAGIC \/ file.version # CACHE_VERSION \/ file.hash # hash
        THEN Miss(mem, buffer)
        ELSE [ret |-> TRUE, bytecode |-> ReadPayload(file, file.size, buffer), memoryCache |-> mem,
              tier |-> "disk"]

\* ShaderCache::GetCachedShader.  buffer: the caller's vector on entry;
\* opens: whether the ifstream opens; garbage: what an indeterminate header holds
GetCachedShader(mem, dsk, filename, hash, buffer, opens, garbage) ==
    LET cachePath == GetCacheFilePath(filename, hash)
        file      == dsk[cachePath]
    IN  IF filename \in DOMAIN mem /\ mem[filename].hash = hash
        THEN [ret |-> TRUE, bytecode |-> mem[filename].bytecode, memoryCache |-> mem, tier |-> "memory"]
        ELSE IF cachePath \notin DOMAIN dsk THEN Miss(mem, buffer)
        ELSE IF ~opens THEN Miss(mem, buffer)
        ELSE IF file.header = "truncated"
        THEN IF garbage.kind # "size" THEN Miss(mem, buffer)
             ELSE [ret |-> TRUE, bytecode |-> Resize(buffer, garbage.n),
                   memoryCache |-> MapPut(mem, filename, CacheEntry(Resize(buffer, garbage.n), hash)),
                   tier |-> "disk"]
        ELSE IF file.magic # CACHE_MAGIC \/ file.version # CACHE_VERSION \/ file.hash # hash
        THEN Miss(mem, buffer)
        ELSE LET read == ReadPayload(file, file.size, buffer)
             IN  [ret |-> TRUE, bytecode |-> read,
                  memoryCache |-> MapPut(mem, filename, CacheEntry(read, hash)),
                  tier |-> "disk"]

\* the indeterminate values that matter for a lookup
GarbageFor(dsk, filename, hash) ==
    LET cachePath == GetCacheFilePath(filename, hash)
    IN  IF cachePath \in DOMAIN dsk /\ dsk[cachePath].header = "truncated"
        THEN Indeterminate ELSE {Outcome("mismatch", 0)}

\* a ClearCache that forgets the directory
ClearCacheMemoryOnly(mem, dsk, removed) == [memoryCache |-> EmptyMap, disk |-> dsk]

\* ShaderCache::ClearCache.  removed: whether remove_all went through (it throws
\* on a file system error, which is logged and leaves the directory in place)
ClearCache(mem, dsk, removed) ==
    [memoryCache |-> EmptyMap, disk |-> IF removed THEN EmptyMap ELSE dsk]

(***************************************************************************)
(* ShaderCompiler: the two backends                                        *)
(***************************************************************************)
\* the reflection members of a default-constructed CompiledShader
EmptyReflection ==
    [inputLayout |-> << >>, constantBufferBindings |-> << >>, textureBindings |-> << >>,
     samplerBindings |-> << >>, uavBindings |-> << >>]

\* extracted: ExtractReflectionData has been called on the result
CompiledShader(bytecode, errors, warnings, success) ==
    [bytecode |-> bytecode, errors |-> errors, warnings |-> warnings, success |-> success,
     reflection |-> EmptyReflection, extracted |-> FALSE]

\* ShaderCompiler::ExtractReflectionData: it clears the five reflection members
ExtractReflectionData(bytecode, compiled) ==
    [compiled EXCEPT !.reflection = EmptyReflection, !.extracted = TRUE]

\* an extraction on every result, failed ones included
ReflectAlways(result) == ExtractReflectionData(result.bytecode, result)

\* the test before the extraction at the end of CompileFromSource
ReflectIfSucceeded(result) ==
    IF result.success THEN ExtractReflectionData(result.bytecode, result) ELSE result

\* a default-constructed CompiledShader
EmptyShader == CompiledShader(<< >>, << >>, << >>, FALSE)

Request(source, entryPoint, type, options) ==
    [source |-> source, entryPoint |-> entryPoint, type |-> type, options |-> options]

EntryPoints == {"main", "PSMain"}

ProfilePrefix(type) ==
    CASE type = "Vertex"   -> "vs_"
      [] type = "Hull"     -> "hs_"
      [] type = "Domain"   -> "ds_"
      [] type = "Geometry" -> "gs_"
      [] type = "Pixel"    -> "ps_"
      [] type = "Compute"  -> "cs_"
      [] OTHER             -> "vs_"

GetTargetProfile(type, model) ==
    LET major == model \div 16
        minor == model % 16
    IN  ProfilePrefix(type) \o ToString(major) \o "_" \o ToString(minor)

LegacyTypes == {"Vertex", "Hull", "Domain", "Geometry", "Pixel", "Compute"}

\* the profile switch of CompileWithLegacyCompiler
LegacyProfile(type) == ProfilePrefix(type) \o "5_0"

\* BuildCompilerArguments: the DXC switches the options select
BuildCompilerArguments(options) ==
    (IF options.enableDebugInfo THEN <<"-Zi", "-Qembed_debug">> ELSE << >>)
    \o (IF options.enableOptimization
        THEN (IF options.optimizationLevel \in 0..3
              THEN <<"-O" \o ToString(options.optimizationLevel)>> ELSE << >>)
        ELSE <<"-Od">>)
    \o (IF options.warningsAsErrors THEN <<"-WX">> ELSE << >>)
    \o (IF options.ieee754Compliance THEN <<"-Gis">> ELSE << >>)
    \o (IF options.enableUnboundedResourceArrays THEN <<"-enable-unbounded-descriptor-tables">> ELSE << >>)

\* the D3DCOMPILE_* flags of CompileWithLegacyCompiler
LegacyFlags(options) ==
    (IF options.enableDebugInfo THEN <<"DEBUG", "SKIP_OPTIMIZATION">> ELSE << >>)
    \o (IF options.enableOptimization /\ ~options.enableDebugInfo THEN <<"OPTIMIZATION_LEVEL3">> ELSE << >>)
    \o (IF options.warningsAsErrors THEN <<"WARNINGS_ARE_ERRORS">> ELSE << >>)
    \o (IF options.ieee754Compliance THEN <<"IEEE_STRICTNESS">> ELSE << >>)

(***************************************************************************)
(* The toolchains are outside the repository.  What one of them returns    *)
(* for a call is an input of the model; the object code of a successful    *)
(* compile is a fixed function of everything the call hands over, three    *)
(* bytes that tell two different calls apart.                              *)
(***************************************************************************)
ProfileTable ==
    SetToSeq({GetTargetProfile(t, m) : t \in ShaderType, m \in ShaderModel}
                \cup {LegacyProfile(t) : t \in LegacyTypes})

SwitchTable ==
    <<"-Zi", "-Qembed_debug", "-O0", "-O1", "-O2", "-O3", "-Od", "-WX", "-Gis",
      "-enable-unbounded-descriptor-tables",
      "DEBUG", "SKIP_OPTIMIZATION", "OPTIMIZATION_LEVEL3", "WARNINGS_ARE_ERRORS", "IEEE_STRICTNESS">>

RECURSIVE SwitchSum(_)
SwitchSum(switches) ==
    IF switches = << >> THEN 0
    ELSE (Index(SwitchTable, Head(switches)) * Index(SwitchTable, Head(switches)) + SwitchSum(Tail(switches))) % 251

RECURSIVE MacroSum(_)
MacroSum(macros) ==
    IF macros = << >> THEN 0
    ELSE (Index(StringTable, MacroString(Head(macros))) + 7 * MacroSum(Tail(macros))) % 5

ToolchainOutput(source, entryPoint, macros, profile, switches) ==
    << 1 + Index(StringTable, source) * 10 + Index(SetToSeq(EntryPoints), entryPoint) * 5 + MacroSum(macros),
       Index(ProfileTable, profile),
       1 + SwitchSum(switches) >>

DiagnosticText == "hlsl diagnostics"

\* what the DXC calls of one compile return
DxcOutcome(throws, blob, hr, status, object, diag) ==
    [throws |-> throws, createBlob |-> blob, compile |-> hr, status |-> status, object |-> object,
     diagnostics |-> diag]

DxcOutcomes ==
    {DxcOutcome(TRUE, FALSE, FALSE, FALSE, FALSE, FALSE),     \* an exception inside the try block
     DxcOutcome(FALSE, FALSE, FALSE, FALSE, FALSE, FALSE),    \* CreateBlob fails
     DxcOutcome(FALSE, TRUE, FALSE, FALSE, FALSE, FALSE)}     \* Compile returns a failure HRESULT
    \cup {DxcOutcome(FALSE, TRUE, TRUE, FALSE, FALSE, d) : d \in BOOLEAN}     \* status: failed
    \cup {DxcOutcome(FALSE, TRUE, TRUE, TRUE, o, d) : o \in BOOLEAN, d \in BOOLEAN}

\* the DXC branch of CompileFromSource
CompileWithDxc(source, entryPoint, type, options, dxc) ==
    IF dxc.throws
    THEN CompiledShader(<< >>, <<"Exception during compilation: " \o "bad allocation">>, << >>, FALSE)
    ELSE IF ~dxc.createBlob
    THEN CompiledShader(<< >>, <<"Failed to create source blob">>, << >>, FALSE)
    ELSE IF ~dxc.compile
    THEN CompiledShader(<< >>, <<"DXC compilation failed">>, << >>, FALSE)
    ELSE LET success == dxc.status /\ dxc.object
             bytecode == IF success
                         THEN ToolchainOutput(source, entryPoint, options.macros,
                                              GetTargetProfile(type, options.targetModel),
                                              BuildCompilerArguments(options))
                         ELSE << >>
         IN  CompiledShader(bytecode,
                            IF dxc.diagnostics /\ ~dxc.status THEN <<DiagnosticText>> ELSE << >>,
                            IF dxc.diagnostics /\ dxc.status THEN <<DiagnosticText>> ELSE << >>,
                            success)

\* what D3DCompile returns: the HRESULT, the code blob, the error blob
D3dOutcome(hr, blob, errorBlob) == [hr |-> hr, blob |-> blob, errorBlob |-> errorBlob]

\* a failed D3DCompile returns no code blob
D3dOutcomes ==
    {d \in {D3dOutcome(hr, blob, e) : hr \in BOOLEAN, blob \in BOOLEAN, e \in BOOLEAN} : d.blob => d.hr}

CompileWithLegacyCompiler(source, entryPoint, type, options, sourceName, d3d) ==
    IF type \notin LegacyTypes
    THEN CompiledShader(<< >>, <<"Unsupported shader type for legacy compiler">>, << >>, FALSE)
    ELSE LET success  == d3d.hr /\ d3d.blob
             bytecode == IF success
                         THEN ToolchainOutput(source, entryPoint, options.macros, LegacyProfile(type),
                                              LegacyFlags(options))
                         ELSE << >>
             errors   == IF d3d.errorBlob /\ ~d3d.hr THEN <<DiagnosticText>> ELSE << >>
             warnings == IF d3d.errorBlob /\ d3d.hr THEN <<DiagnosticText>> ELSE << >>
         IN  CompiledShader(bytecode,
                            IF ~d3d.hr /\ errors = << >> THEN <<"Unknown compilation error">> ELSE errors,
                            warnings, success)

\* a backend test that sends tier 5.1 to DXC
UsesLegacyCompilerBelow(useLegacy, options) == useLegacy \/ options.targetModel < SM_5_1

\* the backend test of CompileFromSource
UsesLegacyCompiler(useLegacy, options) == useLegacy \/ options.targetModel <= SM_5_1

\* an IsShaderModelSupported whose legacy ceiling is 5.0
IsShaderModelSupportedUpTo50(useLegacy, model) == IF useLegacy THEN model <= SM_5_0 ELSE model <= SM_6_4

\* ShaderCompiler::IsShaderModelSupported and the feature queries
IsShaderModelSupported(useLegacy, model) == IF useLegacy THEN model <= SM_5_1 ELSE model <= SM_6_4

GetMaxSupportedShaderModel(useLegacy) == IF useLegacy THEN SM_5_1 ELSE SM_6_4

SupportsVariableRateShading(useLegacy) == ~useLegacy

SupportsMeshShaders(useLegacy) == ~useLegacy

SupportsRaytracing(useLegacy) == ~useLegacy

SupportsWaveIntrinsics(useLegacy) == ~useLegacy

(***************************************************************************)
(* State                                                                   *)
(***************************************************************************)
VARIABLES
    m_dxcUtils,           \* IDxcUtils*           TRUE: non-null
    m_dxcCompiler,        \* IDxcCompiler3*       TRUE: non-null
    m_includeHandler,     \* IDxcIncludeHandler*  TRUE: non-null
    m_useLegacyCompiler,
    m_cacheEnabled,
    m_memoryCache,        \* ShaderCache::m_memoryCache: filename -> CacheEntry
    disk,                 \* the files of the cache directory: path -> file
    lifecycle,            \* "constructed", "initialized", "shut down", "crashed"
    last,                 \* the most recent call and what it returned
    shader,               \* a Shader: its data members and its loading future
    fileTime,             \* last_write_time of the shader's source file
    threads,              \* threads inside CompileFromSource, and where each one is
    manager,              \* the ShaderManager: m_shaderCache and its clock
    xessContext,          \* an XeSSContext: its data members
    nativeContexts        \* the contexts of the XeSS library that are alive

vars ==
    <<m_dxcUtils, m_dxcCompiler, m_includeHandler, m_useLegacyCompiler, m_cacheEnabled,
      m_memoryCache, disk, lifecycle, last, shader, fileTime, threads, manager,
      xessContext, nativeContexts>>

xessVars == <<xessContext, nativeContexts>>

wrapperVars == <<shader, fileTime, threads, manager, xessVars>>

compilerVars ==
    <<m_dxcUtils, m_dxcCompiler, m_includeHandler, m_useLegacyCompiler, m_cacheEnabled, lifecycle>>

NoCall == [op |-> "none"]

(***************************************************************************)
(* The Shader wrapper (Shader.h, Shader.cpp)                               *)
(***************************************************************************)
\* what a load call is given
LoadRequest(sourceFile, entryPoint, type, options) ==
    [sourceFile |-> sourceFile, entryPoint |-> entryPoint, type |-> type, options |-> options]

\* the members a Shader holds before its first load
NoLoad == LoadRequest(EmptyName, "", "Vertex", DefaultOptions)

\* a CompiledD3DShader, with the load request it was compiled for
\* version: the modification time the source file had when its text was read
\* for this result (0: the text did not come from a file)
CompiledD3DShader(request, valid) ==
    [null |-> FALSE, valid |-> valid, request |-> request, version |-> 0]

\* a null std::unique_ptr<CompiledD3DShader>
NullShader == [null |-> TRUE, valid |-> FALSE, request |-> NoLoad, version |-> 0]

\* m_loadingFuture: "none" (no shared state), "pending", "ready" with its value
Future(state, value) == [state |-> state, value |-> value]

NoFuture == Future("none", NullShader)

\* a Shader as its constructor and member initializers leave it
NewShader ==
    [m_type |-> "Vertex", m_sourceFile |-> EmptyName, m_entryPoint |-> "",
     m_compileOptions |-> DefaultOptions, m_shader |-> NullShader, m_lastFileTime |-> 0,
     m_hotReloadEnabled |-> FALSE, m_isLoading |-> FALSE, m_loadingFuture |-> NoFuture]

\* the threads that may be inside CompileFromSource at once
NumThreads == 2

Threads == 1..NumThreads

\* a thread: where it is in CompileFromSource, the bytecode it holds, whether
\* its lookup hit, whether it called the backend, whether it wrote the cache,
\* and whether its store into m_memoryCache overlapped another thread's
Thread(pc, bytecode, hit, compiled, wrote, raced) ==
    [pc |-> pc, bytecode |-> bytecode, hit |-> hit, compiled |-> compiled, wrote |-> wrote,
     raced |-> raced]

Idle == Thread("idle", << >>, FALSE, FALSE, FALSE, FALSE)

\* ShaderCacheEntry, as far as eviction reads it
ShaderCacheEntry(lastAccessTime, accessCount) ==
    [lastAccessTime |-> lastAccessTime, accessCount |-> accessCount]

\* a ShaderManager: m_shaderCache, and the reading of system_clock
NewManager == [m_shaderCache |-> EmptyMap, now |-> 0]

(***************************************************************************)
(* The XeSSContext (XeSSContext.h, XeSSContext.cpp)                        *)
(***************************************************************************)
Resolution(width, height) == [width |-> width, height |-> height]

\* Resolution::IsValid
ResolutionIsValid(res) == res.width > 0 /\ res.height > 0

\* xess_context_handle_t: nullptr, or one of the library's contexts
NullHandle == 0

MaxContexts == 2

Handles == 1..MaxContexts

\* an XeSSContext as its member initializers leave it
NewXeSSContext ==
    [m_context |-> NullHandle, m_outputResolution |-> Resolution(0, 0),
     m_inputResolution |-> Resolution(0, 0), m_quality |-> "Performance",
     m_initFlags |-> "HighResMotionVectors", m_initialized |-> FALSE]

WrapperInit ==
    /\ shader = NewShader
    /\ fileTime = 1
    /\ threads = [t \in Threads |-> Idle]
    /\ manager = NewManager
    /\ xessContext = NewXeSSContext
    /\ nativeContexts = {}

\* a ShaderCompiler as its constructor and member initializers leave it, over
\* an empty cache directory
Init ==
    /\ m_dxcUtils = FALSE
    /\ m_dxcCompiler = FALSE
    /\ m_includeHandler = FALSE
    /\ m_useLegacyCompiler = FALSE
    /\ m_cacheEnabled = TRUE
    /\ m_memoryCache = EmptyMap
    /\ disk = EmptyMap
    /\ lifecycle = "constructed"
    /\ last = NoCall
    /\ WrapperInit

(***************************************************************************)
(* The ShaderCache on its own (reached through ShaderCompiler::GetCache)   *)
(***************************************************************************)
CacheFileNames == {FileName("shaders/", "blur", ".hlsl")}

Fingerprints == {CalculateSourceHash(s, DefaultOptions) : s \in SourceTexts}

\* what the directory holds for a key
RecordState(dsk, filename, hash) ==
    LET cachePath == GetCacheFilePath(filename, hash)
        file      == dsk[cachePath]
    IN  IF cachePath \notin DOMAIN dsk THEN "absent"
        ELSE IF file.header = "truncated" THEN "header cut"
        ELSE IF file.magic # CACHE_MAGIC THEN "wrong magic"
        ELSE IF file.version # CACHE_VERSION THEN "wrong version"
        ELSE IF file.hash # hash THEN "wrong fingerprint"
        ELSE IF Len(file.payload) < file.size THEN "payload cut"
        ELSE "intact"

\* the bytecode the CacheShader call that wrote the record of a key was given
Origin(dsk, filename, hash) == dsk[GetCacheFilePath(filename, hash)].origin

ShaderCache_CacheShader ==
    \E filename \in CacheFileNames, hash \in Fingerprints, bytecode \in Bytecodes :
      \E outcome \in WriteOutcomes(bytecode) :
        LET r == CacheShader(m_memoryCache, disk, filename, hash, bytecode, outcome)
        IN  /\ m_memoryCache' = r.memoryCache
            /\ disk' = r.disk
            /\ last' = [op |-> "CacheShader", filename |-> filename, hash |-> hash,
                        bytecode |-> bytecode, outcome |-> outcome, throws |-> r.throws]
            /\ UNCHANGED <<compilerVars, wrapperVars>>

ShaderCache_GetCachedShader ==
    \E filename \in CacheFileNames, hash \in Fingerprints :
      \E garbage \in GarbageFor(disk, filename, hash) :
        LET r == GetCachedShader(m_memoryCache, disk, filename, hash, << >>, TRUE, garbage)
        IN  /\ m_memoryCache' = r.memoryCache
            /\ last' = [op |-> "GetCachedShader", filename |-> filename, hash |-> hash,
                        ret |-> r.ret, bytecode |-> r.bytecode, tier |-> r.tier,
                        record |-> RecordState(disk, filename, hash),
                        emptyMemory |-> (m_memoryCache = EmptyMap)]
            /\ UNCHANGED <<disk, compilerVars, wrapperVars>>

ShaderCache_ClearCache ==
    \E removed \in BOOLEAN :
        LET r == ClearCache(m_memoryCache, disk, removed)
        IN  /\ m_memoryCache' = r.memoryCache
            /\ disk' = r.disk
            /\ last' = [op |-> "ClearCache", removed |-> removed,
                        hadEntries |-> (m_memoryCache # EmptyMap), hadRecords |-> (disk # EmptyMap)]
            /\ UNCHANGED <<compilerVars, wrapperVars>>

\* a new ShaderCache over the same directory (the process restarts)
NewCacheStore ==
    /\ m_memoryCache' = EmptyMap
    /\ last' = [op |-> "new ShaderCache"]
    /\ UNCHANGED <<disk, compilerVars, wrapperVars>>

\* what a damaged record looks like: a flipped magic byte, another format
\* version, another fingerprint in the header
Damaged(file, kind) ==
    CASE kind = "magic"   -> [file EXCEPT !.magic = "XESX"]
      [] kind = "version" -> [file EXCEPT !.version = CACHE_VERSION + 1]
      [] kind = "hash"    -> [file EXCEPT !.hash = Add64(file.hash, U64(1))]

\* the environment damages an intact record of the directory
DamageRecord(names, hashes) ==
    \E filename \in names, hash \in hashes, kind \in {"magic", "version", "hash"} :
        /\ RecordState(disk, filename, hash) = "intact"
        /\ disk' = [disk EXCEPT ![GetCacheFilePath(filename, hash)] = Damaged(@, kind)]
        /\ last' = [op |-> "damage", filename |-> filename, hash |-> hash, kind |-> kind]
        /\ UNCHANGED <<m_memoryCache, compilerVars, wrapperVars>>

DamageCacheRecord == DamageRecord(CacheFileNames, Fingerprints)

NextCache ==
    \/ ShaderCache_CacheShader
    \/ ShaderCache_GetCachedShader
    \/ ShaderCache_ClearCache
    \/ NewCacheStore
    \/ DamageCacheRecord

SpecCache == Init /\ [][NextCache]_vars

(***************************************************************************)
(* The ShaderCache under several logical names: records are stored under   *)
(* one name and looked up under that name and three others                 *)
(***************************************************************************)
StoredName == FileName("shaders/", "blur", ".hlsl")

LookupNames ==
    {StoredName,
     FileName("post/", "blur", ".hlsl"),        \* another directory
     FileName("shaders/", "blur", ".vs"),       \* another extension
     FileName("shaders/", "tonemap", ".hlsl")}  \* another base name

\* one fingerprint: the names are what varies here
NameFingerprints == {CHOOSE hash \in Fingerprints : TRUE}

CacheShaderUnderStoredName ==
    \E hash \in NameFingerprints, bytecode \in Bytecodes :
      \E outcome \in {w \in WriteOutcomes(bytecode) : w.kind \in {"open fails", "written"}} :
        LET r == CacheShader(m_memoryCache, disk, StoredName, hash, bytecode, outcome)
        IN  /\ m_memoryCache' = r.memoryCache
            /\ disk' = r.disk
            /\ last' = [op |-> "CacheShader", filename |-> StoredName, hash |-> hash,
                        bytecode |-> bytecode, outcome |-> outcome, throws |-> r.throws]
            /\ UNCHANGED <<compilerVars, wrapperVars>>

GetCachedShaderUnderAnyName ==
    \E filename \in LookupNames, hash \in NameFingerprints :
      \E garbage \in GarbageFor(disk, filename, hash) :
        LET r == GetCachedShader(m_memoryCache, disk, filename, hash, << >>, TRUE, garbage)
        IN  /\ m_memoryCache' = r.memoryCache
            /\ last' = [op |-> "GetCachedShader", filename |-> filename, hash |-> hash,
                        ret |-> r.ret, bytecode |-> r.bytecode, tier |-> r.tier,
                        record |-> RecordState(disk, filename, hash),
                        emptyMemory |-> (m_memoryCache = EmptyMap)]
            /\ UNCHANGED <<disk, compilerVars, wrapperVars>>

NextNames ==
    \/ CacheShaderUnderStoredName
    \/ GetCachedShaderUnderAnyName
    \/ NewCacheStore

SpecNames == Init /\ [][NextNames]_vars

(***************************************************************************)
(* The ShaderCompiler                                                      *)
(***************************************************************************)
\* ShaderCompiler::Initialize.  failed: the DXC step that fails ("none": all
\* three succeed).  A failing creation call leaves its out-pointer null.
ShaderCompiler_Initialize ==
    \E failed \in {"none", "DxcUtils", "DxcCompiler", "IncludeHandler"} :
        /\ lifecycle # "crashed"
        /\ IF failed = "none"
           THEN /\ m_dxcUtils' = TRUE
                /\ m_dxcCompiler' = TRUE
                /\ m_includeHandler' = TRUE
                /\ m_useLegacyCompiler' = FALSE
           ELSE \* the partially initialized DXC is released, handle by handle
                /\ m_dxcUtils' = FALSE
                /\ m_dxcCompiler' = FALSE
                /\ m_includeHandler' = FALSE
                /\ m_useLegacyCompiler' = TRUE
        /\ lifecycle' = "initialized"
        /\ last' = [op |-> "Initialize", ret |-> TRUE, failed |-> failed, state |-> lifecycle]
        /\ UNCHANGED <<m_cacheEnabled, m_memoryCache, disk, wrapperVars>>

ShaderCompiler_Shutdown ==
    /\ lifecycle # "crashed"
    /\ m_includeHandler' = FALSE
    /\ m_dxcCompiler' = FALSE
    /\ m_dxcUtils' = FALSE
    /\ lifecycle' = "shut down"
    /\ last' = [op |-> "Shutdown", state |-> lifecycle]
    /\ UNCHANGED <<m_useLegacyCompiler, m_cacheEnabled, m_memoryCache, disk, wrapperVars>>

ShaderCompiler_SetCacheEnabled ==
    \E enabled \in BOOLEAN :
        /\ lifecycle # "crashed"
        /\ m_cacheEnabled' = enabled
        /\ last' = [op |-> "SetCacheEnabled", enabled |-> enabled]
        /\ UNCHANGED <<m_dxcUtils, m_dxcCompiler, m_includeHandler, m_useLegacyCompiler,
                       m_memoryCache, disk, lifecycle, wrapperVars>>

\* the process ends and a new one constructs a ShaderCompiler over the same
\* cache directory
NewProcess ==
    /\ m_dxcUtils' = FALSE
    /\ m_dxcCompiler' = FALSE
    /\ m_includeHandler' = FALSE
    /\ m_useLegacyCompiler' = FALSE
    /\ m_cacheEnabled' = TRUE
    /\ m_memoryCache' = EmptyMap
    /\ lifecycle' = "constructed"
    /\ last' = [op |-> "new process"]
    /\ UNCHANGED <<disk, wrapperVars>>

ShaderFile == FileName("shaders/", "blur", ".hlsl")

PixelShader == "float4 main() : SV_Target { return 1; }"

WithModel(model) == [DefaultOptions EXCEPT !.targetModel = model]

Requests == {Request(PixelShader, "main", "Pixel", DefaultOptions)}

\* requests for one source text under one name that differ in the entry point,
\* the shader type or one compile option
KeyRequests ==
    {Request(PixelShader, "main", "Pixel", DefaultOptions),
     Request(PixelShader, "PSMain", "Pixel", DefaultOptions),
     Request(PixelShader, "main", "Vertex", DefaultOptions),
     Request(PixelShader, "main", "Pixel", [DefaultOptions EXCEPT !.warningsAsErrors = TRUE]),
     Request(PixelShader, "main", "Pixel", [DefaultOptions EXCEPT !.ieee754Compliance = TRUE]),
     Request(PixelShader, "main", "Pixel", [DefaultOptions EXCEPT !.enableUnboundedResourceArrays = TRUE]),
     Request(PixelShader, "main", "Pixel", [DefaultOptions EXCEPT !.optimizationLevel = 0])}

\* CalculateSourceHash tabulated over the requests of the pipeline, so that a
\* fingerprint is computed once
HashTable == [r \in Requests \cup KeyRequests |-> CalculateSourceHash(r.source, r.options)]

SourceHash(request) ==
    IF request \in DOMAIN HashTable THEN HashTable[request]
    ELSE CalculateSourceHash(request.source, request.options)

\* the shader source file as CompileFromFile finds it
SourceFile(status, content) == [status |-> status, content |-> content]

SourceFiles(source) ==
    {SourceFile("missing", ""), SourceFile("read throws", ""), SourceFile("read", ""),
     SourceFile("read", source)}

\* a LoadShaderSource that hands back a stand-in shader when the file cannot be read
LoadShaderSourceStandIn(file) == IF file.status = "read" THEN file.content ELSE PixelShader

\* ShaderCompiler::LoadShaderSource
LoadShaderSource(file) == IF file.status = "read" THEN file.content ELSE ""

NoPrevious ==
    [same |-> FALSE, consulted |-> FALSE, hit |-> FALSE, success |-> FALSE, write |-> "none",
     bytecode |-> << >>]

\* what the call before this one did, when it was a compile of the same
\* source, entry point, type, options and name
Previous(request, sourceName) ==
    IF /\ last.op \in {"CompileFromSource", "CompileFromFile"}
       /\ last.request = request
       /\ last.sourceName = sourceName
       /\ ~last.fault
    THEN [same |-> TRUE, consulted |-> last.consulted, hit |-> last.hit, success |-> last.result.success,
          write |-> last.write.kind, bytecode |-> last.result.bytecode]
    ELSE NoPrevious

NoWrite == Outcome("none", 0)

Returned(op, file, request, sourceName, consulted, lookup, backend, write, result) ==
    [op |-> op, file |-> file, request |-> request, sourceName |-> sourceName,
     state |-> lifecycle, consulted |-> consulted,
     record |-> IF consulted THEN RecordState(disk, sourceName, SourceHash(request))
                ELSE "not read",
     inMemory |-> (consulted /\ lookup.tier = "memory"),
     tier |-> IF consulted THEN lookup.tier ELSE "none",
     hit |-> (consulted /\ lookup.ret),
     backend |-> backend, write |-> write, result |-> result, fault |-> FALSE,
     previous |-> Previous(request, sourceName)]

\* the end of CompileFromSource: a successful result is cached and returned
StoreAndReturn(op, file, request, sourceName, consulted, lookup, hash, backend, compiled, writeKinds) ==
    LET result == ReflectIfSucceeded(compiled) IN
    IF result.success /\ consulted
    THEN \E write \in {w \in WriteOutcomes(result.bytecode) : w.kind \in writeKinds} :
           LET c == CacheShader(m_memoryCache, disk, sourceName, hash, result.bytecode, write)
           IN  /\ m_memoryCache' = c.memoryCache
               /\ disk' = c.disk
               /\ last' = IF c.throws
                          THEN \* an exception leaves CompileFromSource
                               [op |-> op, file |-> file, request |-> request, sourceName |-> sourceName,
                                state |-> lifecycle, consulted |-> consulted, backend |-> backend,
                                write |-> write, fault |-> TRUE]
                          ELSE Returned(op, file, request, sourceName, consulted, lookup, backend, write, result)
               /\ UNCHANGED <<compilerVars, wrapperVars>>
    ELSE /\ last' = Returned(op, file, request, sourceName, consulted, lookup, backend, NoWrite, result)
         /\ UNCHANGED <<m_memoryCache, disk, compilerVars, wrapperVars>>

\* ShaderCompiler::CompileFromSource, the whole call.  op and file say how it
\* was entered; dxcOutcomes, d3dOutcomes and writeKinds are what the toolchains
\* and the file system may answer.
CompileFromSource(op, file, request, sourceName, dxcOutcomes, d3dOutcomes, writeKinds) ==
    LET source    == request.source
        options   == request.options
        consulted == m_cacheEnabled /\ sourceName # EmptyName
        hash      == SourceHash(request)
        legacy    == UsesLegacyCompiler(m_useLegacyCompiler, options)
    IN  \E garbage \in (IF consulted THEN GarbageFor(disk, sourceName, hash) ELSE {Outcome("mismatch", 0)}) :
          LET lookup == GetCachedShader(m_memoryCache, disk, sourceName, hash, << >>, TRUE, garbage)
          IN  IF consulted /\ lookup.ret
              THEN \* cache hit
                   /\ m_memoryCache' = lookup.memoryCache
                   /\ last' = Returned(op, file, request, sourceName, consulted, lookup, "none", NoWrite,
                                       ExtractReflectionData(lookup.bytecode,
                                           CompiledShader(lookup.bytecode, << >>, << >>, TRUE)))
                   /\ UNCHANGED <<disk, compilerVars, wrapperVars>>
              ELSE IF ~legacy /\ ~(m_dxcUtils /\ m_dxcCompiler)
              THEN \* a call through a null DXC interface pointer: access violation
                   /\ lifecycle' = "crashed"
                   /\ last' = [op |-> op, file |-> file, request |-> request, sourceName |-> sourceName,
                               state |-> lifecycle, consulted |-> consulted, backend |-> "dxc", fault |-> TRUE]
                   /\ UNCHANGED <<m_dxcUtils, m_dxcCompiler, m_includeHandler, m_useLegacyCompiler,
                                  m_cacheEnabled, m_memoryCache, disk, wrapperVars>>
              ELSE IF legacy
              THEN \E d3d \in d3dOutcomes :
                     LET result == CompileWithLegacyCompiler(source, request.entryPoint, request.type,
                                                             options, sourceName, d3d)
                     IN  StoreAndReturn(op, file, request, sourceName, consulted, lookup, hash,
                                        "legacy", result, writeKinds)
              ELSE \E dxc \in dxcOutcomes :
                     LET result == CompileWithDxc(source, request.entryPoint, request.type, options, dxc)
                     IN  StoreAndReturn(op, file, request, sourceName, consulted, lookup, hash,
                                        "dxc", result, writeKinds)

\* ShaderCompiler::CompileFromFile, the whole call
CompileFromFile(filename, file, request, dxcOutcomes, d3dOutcomes, writeKinds) ==
    LET source == LoadShaderSource(file)
    IN  IF source = ""
        THEN /\ last' = [op |-> "CompileFromFile", file |-> file.status,
                         request |-> [request EXCEPT !.source = source], sourceName |-> filename,
                         state |-> lifecycle, consulted |-> FALSE, record |-> "not read", inMemory |-> FALSE, tier |-> "none", hit |-> FALSE,
                         backend |-> "none", write |-> NoWrite,
                         result |-> [EmptyShader EXCEPT
                                        !.errors = <<"Failed to load shader file: " \o FullName(filename)>>],
                         fault |-> FALSE, previous |-> NoPrevious]
             /\ UNCHANGED <<m_memoryCache, disk, compilerVars, wrapperVars>>
        ELSE CompileFromSource("CompileFromFile", file.status, [request EXCEPT !.source = source], filename,
                               dxcOutcomes, d3dOutcomes, writeKinds)

(***************************************************************************)
(* The pipeline: compiles through the cache, restarts, damaged records     *)
(***************************************************************************)
\* the toolchain answers of the pipeline: a compile succeeds or fails with diagnostics
PipelineDxc == {DxcOutcome(FALSE, TRUE, TRUE, ok, ok, ~ok) : ok \in BOOLEAN}

PipelineD3d == {D3dOutcome(ok, ok, ~ok) : ok \in BOOLEAN}

AllWriteKinds == {"create_directories throws", "open fails", "header cut", "written"}

ShaderCompiler_CompileFromSource ==
    \E request \in Requests, sourceName \in {EmptyName, ShaderFile} :
        /\ lifecycle = "initialized"
        /\ CompileFromSource("CompileFromSource", "none", request, sourceName,
                             PipelineDxc, PipelineD3d, AllWriteKinds)

ShaderCompiler_CompileFromFile ==
    \E request \in Requests :
      \E file \in SourceFiles(request.source) :
        /\ lifecycle = "initialized"
        /\ CompileFromFile(ShaderFile, file, request, PipelineDxc, PipelineD3d, AllWriteKinds)

DamagePipelineRecord ==
    DamageRecord({ShaderFile}, {HashTable[r] : r \in Requests})

Next ==
    \/ ShaderCompiler_Initialize
    \/ ShaderCompiler_SetCacheEnabled
    \/ ShaderCompiler_CompileFromSource
    \/ ShaderCompiler_CompileFromFile
    \/ NewProcess
    \/ DamagePipelineRecord

Spec == Init /\ [][Next]_vars

(***************************************************************************)
(* The cache key: requests that differ in one compile input, one name,     *)
(* an undamaged disk                                                       *)
(***************************************************************************)
KeyCompile ==
    \E request \in KeyRequests :
        /\ lifecycle = "initialized"
        /\ CompileFromSource("CompileFromSource", "none", request, ShaderFile,
                             PipelineDxc, PipelineD3d, {"open fails", "written"})

NextKey ==
    \/ ShaderCompiler_Initialize
    \/ KeyCompile
    \/ NewProcess

SpecKey == Init /\ [][NextKey]_vars

(***************************************************************************)
(* The backends: every tier, every answer of the toolchains, no cache      *)
(***************************************************************************)
BackendRequests ==
    {Request(PixelShader, "main", type, WithModel(m)) : type \in {"Pixel", "Mesh"}, m \in ShaderModel}

\* a compile without a source name, at any point of the compiler's life
BackendCompile ==
    \E request \in BackendRequests :
        /\ lifecycle # "crashed"
        /\ CompileFromSource("CompileFromSource", "none", request, EmptyName,
                             DxcOutcomes, D3dOutcomes, AllWriteKinds)

\* the process that crashed is started again
Restart == lifecycle = "crashed" /\ NewProcess

NextBackend ==
    \/ ShaderCompiler_Initialize
    \/ ShaderCompiler_Shutdown
    \/ BackendCompile
    \/ Restart

SpecBackend == Init /\ [][NextBackend]_vars

(***************************************************************************)
(* CalculateSourceHash on pairs of requests that differ in one input       *)
(***************************************************************************)
HashedOptions ==
    {[DefaultOptions EXCEPT !.macros = <<ShaderMacro("QUALITY", "1")>>],
     [DefaultOptions EXCEPT !.macros = <<ShaderMacro("QUALITY", "1"), ShaderMacro("DEBUG", "0")>>,
                            !.enableDebugInfo = TRUE, !.optimizationLevel = 0],
     [DefaultOptions EXCEPT !.macros = <<ShaderMacro("DEBUG", "1")>>, !.targetModel = SM_5_0,
                            !.enableOptimization = FALSE, !.warningsAsErrors = TRUE]}

HashedRequests == {Request(s, "main", "Pixel", o) : s \in SourceTexts, o \in HashedOptions}

CompileInputs ==
    {"source", "entryPoint", "type", "targetModel", "enableDebugInfo", "enableOptimization",
     "warningsAsErrors", "ieee754Compliance", "enableUnboundedResourceArrays", "optimizationLevel",
     "macro name", "macro definition"}

\* the request with one input changed
Changed(r, input) ==
    LET o == r.options
        m == o.macros[1]
    IN  CASE input = "source" -> [r EXCEPT !.source = CHOOSE s \in SourceTexts : s # r.source]
          [] input = "entryPoint" -> [r EXCEPT !.entryPoint = "PSMain"]
          [] input = "type" -> [r EXCEPT !.type = "Vertex"]
          [] input = "targetModel" -> [r EXCEPT !.options.targetModel = IF @ = SM_6_0 THEN SM_6_4 ELSE SM_6_0]
          [] input = "enableDebugInfo" -> [r EXCEPT !.options.enableDebugInfo = ~@]
          [] input = "enableOptimization" -> [r EXCEPT !.options.enableOptimization = ~@]
          [] input = "warningsAsErrors" -> [r EXCEPT !.options.warningsAsErrors = ~@]
          [] input = "ieee754Compliance" -> [r EXCEPT !.options.ieee754Compliance = ~@]
          [] input = "enableUnboundedResourceArrays" ->
                 [r EXCEPT !.options.enableUnboundedResourceArrays = ~@]
          [] input = "optimizationLevel" -> [r EXCEPT !.options.optimizationLevel = (@ + 1) % 4]
          [] input = "macro name" ->
                 [r EXCEPT !.options.macros[1] =
                               ShaderMacro(CHOOSE n \in MacroNames : n # m.name, m.definition)]
          [] input = "macro definition" ->
                 [r EXCEPT !.options.macros[1] =
                               ShaderMacro(m.name, CHOOSE d \in MacroDefinitions : d # m.definition)]

InitHash ==
    /\ m_dxcUtils = FALSE
    /\ m_dxcCompiler = FALSE
    /\ m_includeHandler = FALSE
    /\ m_useLegacyCompiler = FALSE
    /\ m_cacheEnabled = TRUE
    /\ m_memoryCache = EmptyMap
    /\ disk = EmptyMap
    /\ lifecycle = "constructed"
    /\ WrapperInit
    /\ \E r \in HashedRequests, input \in CompileInputs :
          last = [op |-> "requests", input |-> input, a |-> r, b |-> Changed(r, input)]

HashBoth ==
    /\ last.op = "requests"
    /\ last' = [op |-> "CalculateSourceHash", input |-> last.input, a |-> last.a, b |-> last.b,
                hashA |-> CalculateSourceHash(last.a.source, last.a.options),
                hashB |-> CalculateSourceHash(last.b.source, last.b.options)]
    /\ UNCHANGED <<m_memoryCache, disk, compilerVars, wrapperVars>>

NextHash == HashBoth

SpecHash == InitHash /\ [][NextHash]_vars

(***************************************************************************)
(* CalculateSourceHash on a macro list and on the list with two entries    *)
(* swapped                                                                 *)
(***************************************************************************)
MaxMacros == 3

Macros == {ShaderMacro(n, d) : n \in MacroNames, d \in MacroDefinitions}

\* the macro lists without repetition, of two to MaxMacros entries
MacroLists ==
    UNION {{l \in [1..n -> Macros] : \A i, j \in 1..n : i # j => l[i] # l[j]} : n \in 2..MaxMacros}

Swapped(list, i, j) ==
    [k \in DOMAIN list |-> IF k = i THEN list[j] ELSE IF k = j THEN list[i] ELSE list[k]]

OrderedOptions ==
    {[DefaultOptions EXCEPT !.targetModel = m, !.enableDebugInfo = d] : m \in {SM_5_0, SM_6_4}, d \in BOOLEAN}

InitOrder ==
    /\ m_dxcUtils = FALSE
    /\ m_dxcCompiler = FALSE
    /\ m_includeHandler = FALSE
    /\ m_useLegacyCompiler = FALSE
    /\ m_cacheEnabled = TRUE
    /\ m_memoryCache = EmptyMap
    /\ disk = EmptyMap
    /\ lifecycle = "constructed"
    /\ WrapperInit
    /\ \E source \in SourceTexts, options \in OrderedOptions, list \in MacroLists :
         \E i \in DOMAIN list, j \in DOMAIN list :
            /\ i < j
            /\ last = [op |-> "macro lists", source |-> source,
                       a |-> [options EXCEPT !.macros = list],
                       b |-> [options EXCEPT !.macros = Swapped(list, i, j)]]

\* the fingerprints of the two requests
HashOrders ==
    /\ last.op = "macro lists"
    /\ last' = [op |-> "fingerprints", source |-> last.source, a |-> last.a, b |-> last.b,
                hashA |-> CalculateSourceHash(last.source, last.a),
                hashB |-> CalculateSourceHash(last.source, last.b)]
    /\ UNCHANGED <<m_memoryCache, disk, compilerVars, wrapperVars>>

NextOrder == HashOrders

SpecOrder == InitOrder /\ [][NextOrder]_vars

(***************************************************************************)
(* The Shader wrapper: loads, the poll in Bind, hot reload                 *)
(***************************************************************************)
MaxFileTime == 2

ShaderSourceFile == FileName("shaders/", "blur", ".hlsl")

LoadRequests ==
    {LoadRequest(ShaderSourceFile, "VSMain", "Vertex", DefaultOptions),
     LoadRequest(ShaderSourceFile, "PSMain", "Pixel", DefaultOptions)}

\* what a load finds: the source file does not open, or ShaderManager::CompileShader
\* returns null, an invalid or a valid CompiledD3DShader
LoadOutcomes == {"open fails", "null", "invalid", "valid"}

\* the outcomes a load can have now: a file that does not exist does not open
\* (fileTime = 0: the file is missing)
LoadOutcomesNow == IF fileTime = 0 THEN {"open fails"} ELSE LoadOutcomes

\* the value Shader::CompileShader hands back for a request
CompileShader(request, outcome) ==
    IF outcome = "null" THEN NullShader ELSE CompiledD3DShader(request, outcome = "valid")

\* a result compiled from the text the file held at a modification time
ReadAt(result, time) == IF result.null THEN result ELSE [result EXCEPT !.version = time]

\* Shader::IsValid
IsValid(sh) == ~sh.m_shader.null /\ sh.m_shader.valid

\* Shader::GetFileTime of the shader's source file
GetFileTime(filename) == IF filename = ShaderSourceFile THEN fileTime ELSE 0

\* the four assignments that open every load call
WithRequest(sh, request) ==
    [sh EXCEPT !.m_sourceFile = request.sourceFile, !.m_entryPoint = request.entryPoint,
               !.m_type = request.type, !.m_compileOptions = request.options]

\* Shader::LoadFromFile: the Shader afterwards and the value returned
LoadFromFile(sh, request, outcome) ==
    LET named    == WithRequest(sh, request)
        compiled == [named EXCEPT !.m_shader = ReadAt(CompileShader(request, outcome),
                                                      GetFileTime(request.sourceFile))]
    IN  IF outcome = "open fails" THEN [shader |-> named, ret |-> FALSE]
        ELSE IF IsValid(compiled)
        THEN [shader |-> [compiled EXCEPT !.m_lastFileTime = GetFileTime(request.sourceFile)],
              ret |-> TRUE]
        ELSE [shader |-> compiled, ret |-> FALSE]

\* the load request the Shader's members describe
Members(sh) == LoadRequest(sh.m_sourceFile, sh.m_entryPoint, sh.m_type, sh.m_compileOptions)

Shader_LoadFromFile ==
    \E request \in LoadRequests, outcome \in LoadOutcomesNow :
        LET r == LoadFromFile(shader, request, outcome)
        IN  /\ shader' = r.shader
            /\ last' = [op |-> "LoadFromFile", request |-> request, ret |-> r.ret, before |-> shader]
            /\ UNCHANGED <<fileTime, threads, manager, xessVars, m_memoryCache, disk, compilerVars>>

\* the name LoadFromSource is given for its source text
SourceName == FileName("", "inline", "")

\* Shader::LoadFromSource: the Shader afterwards and the value returned
LoadFromSource(sh, request, outcome) ==
    LET compiled == [WithRequest(sh, request) EXCEPT !.m_shader = CompileShader(request, outcome)]
    IN  [shader |-> compiled, ret |-> IsValid(compiled)]

Shader_LoadFromSource ==
    \E entry \in LoadRequests, outcome \in LoadOutcomes \ {"open fails"} :
        LET request == [entry EXCEPT !.sourceFile = SourceName]
            r       == LoadFromSource(shader, request, outcome)
        IN  /\ shader' = r.shader
            /\ last' = [op |-> "LoadFromSource", request |-> request, ret |-> r.ret, before |-> shader]
            /\ UNCHANGED <<fileTime, threads, manager, xessVars, m_memoryCache, disk, compilerVars>>

\* Shader::LoadFromFileAsync; the task it starts runs in AsyncLoadCompletes.
\* A task that is still running is waited for and its result is dropped.
Shader_LoadFromFileAsync ==
    \E request \in LoadRequests :
        /\ shader' = [WithRequest(shader, request) EXCEPT
                         !.m_isLoading = TRUE,
                         !.m_loadingFuture = Future("pending", CompiledD3DShader(request, FALSE))]
        /\ last' = [op |-> "LoadFromFileAsync", request |-> request, from |-> shader.m_shader,
                    \* the assignment to m_loadingFuture releases the shared state of a task
                    \* started by std::async, which blocks until that task has completed
                    waited |-> (shader.m_loadingFuture.state = "pending")]
        /\ UNCHANGED <<fileTime, threads, manager, xessVars, m_memoryCache, disk, compilerVars>>

\* the lambda of LoadFromFileAsync returns: the future becomes ready
AsyncLoadCompletes ==
    \E outcome \in (IF shader.m_loadingFuture.value.request.sourceFile = ShaderSourceFile
                    THEN LoadOutcomesNow ELSE {"open fails"}) :
        /\ shader.m_loadingFuture.state = "pending"
        /\ shader' = [shader EXCEPT !.m_loadingFuture =
                         Future("ready", IF outcome = "open fails" THEN NullShader
                                         ELSE ReadAt(CompileShader(shader.m_loadingFuture.value.request,
                                                                   outcome), fileTime))]
        /\ last' = [op |-> "async load completes", outcome |-> outcome]
        /\ UNCHANGED <<fileTime, threads, manager, xessVars, m_memoryCache, disk, compilerVars>>

\* Shader::UpdateFromAsyncLoad
UpdateFromAsyncLoad(sh) ==
    IF ~sh.m_isLoading THEN sh
    ELSE IF sh.m_loadingFuture.state = "ready"
    THEN LET got == [sh EXCEPT !.m_shader = sh.m_loadingFuture.value, !.m_isLoading = FALSE,
                               !.m_loadingFuture = NoFuture]
         IN  IF IsValid(got) THEN [got EXCEPT !.m_lastFileTime = GetFileTime(sh.m_sourceFile)] ELSE got
    ELSE sh

\* Shader::Bind: the Shader afterwards
Bind(sh) == IF ~IsValid(sh) THEN sh ELSE UpdateFromAsyncLoad(sh)

Shader_Bind ==
    LET polled == IsValid(shader)
        after  == Bind(shader)
    IN  /\ shader' = after
        /\ last' = [op |-> "Bind",
                    workDone |-> (shader.m_isLoading /\ shader.m_loadingFuture.state = "ready"),
                    polled |-> polled,
                    bound |-> (polled /\ IsValid(after)),
                    took |-> (polled /\ shader.m_isLoading /\ shader.m_loadingFuture.state = "ready"),
                    type |-> after.m_type]
        /\ UNCHANGED <<fileTime, threads, manager, xessVars, m_memoryCache, disk, compilerVars>>

Shader_EnableHotReload ==
    \E enable \in BOOLEAN :
        /\ shader' = [shader EXCEPT !.m_hotReloadEnabled = enable]
        /\ last' = [op |-> "EnableHotReload", enable |-> enable]
        /\ UNCHANGED <<fileTime, threads, manager, xessVars, m_memoryCache, disk, compilerVars>>

\* the call before this one was a CheckForReload that reloaded at this file time
ReactedAt(time) == last.op = "CheckForReload" /\ last.reloaded /\ last.fileTime = time

\* a test that also reloads a file whose time is the one recorded
ReloadDueOrSame(sh, currentFileTime) ==
    sh.m_hotReloadEnabled /\ sh.m_sourceFile # EmptyName /\ currentFileTime >= sh.m_lastFileTime

\* Shader::~Shader, and the construction of the next Shader.  The destructor
\* waits for a task that is running; dangling: a task is left running that
\* holds the pointer to the Shader destroyed.
Shader_Destroy ==
    LET running == shader.m_loadingFuture.state = "pending"
        waits   == shader.m_isLoading /\ shader.m_loadingFuture.state # "none"
    IN  /\ shader' = NewShader
        /\ last' = [op |-> "~Shader", waited |-> (running /\ waits),
                    \* the destructor of m_loadingFuture blocks as well
                    dangling |-> FALSE, before |-> shader]
        /\ UNCHANGED <<fileTime, threads, manager, xessVars, m_memoryCache, disk, compilerVars>>

\* the two tests of CheckForReload
ReloadDue(sh, currentFileTime) ==
    sh.m_hotReloadEnabled /\ sh.m_sourceFile # EmptyName /\ currentFileTime > sh.m_lastFileTime

\* Shader::CheckForReload
Shader_CheckForReload ==
    LET currentFileTime == GetFileTime(shader.m_sourceFile)
        reloads == ReloadDue(shader, currentFileTime)
    IN  \E outcome \in (IF reloads /\ currentFileTime # 0 THEN LoadOutcomes ELSE {"open fails"}) :
          LET r == LoadFromFile(shader, Members(shader), outcome)
          IN  /\ shader' = IF reloads THEN r.shader ELSE shader
              /\ last' = [op |-> "CheckForReload", reloaded |-> reloads, ok |-> (reloads /\ r.ret),
                          fileTime |-> currentFileTime,
                          again |-> ReactedAt(currentFileTime), before |-> shader]
              /\ UNCHANGED <<fileTime, threads, manager, xessVars, m_memoryCache, disk, compilerVars>>

\* the source file is deleted
RemoveSourceFile ==
    /\ fileTime # 0
    /\ fileTime' = 0
    /\ last' = [op |-> "remove file"]
    /\ UNCHANGED <<shader, threads, manager, xessVars, m_memoryCache, disk, compilerVars>>

\* the source file is saved again, or written anew after it was deleted
TouchSourceFile ==
    /\ fileTime < MaxFileTime
    /\ fileTime' = fileTime + 1
    /\ last' = [op |-> "touch"]
    /\ UNCHANGED <<shader, threads, manager, xessVars, m_memoryCache, disk, compilerVars>>

NextShader ==
    \/ Shader_LoadFromFile
    \/ Shader_LoadFromSource
    \/ Shader_LoadFromFileAsync
    \/ AsyncLoadCompletes
    \/ Shader_Bind
    \/ Shader_EnableHotReload
    \/ Shader_CheckForReload
    \/ Shader_Destroy
    \/ TouchSourceFile
    \/ RemoveSourceFile

SpecShader == Init /\ [][NextShader]_vars

(***************************************************************************)
(* Threads inside CompileFromSource at the same time, one key              *)
(***************************************************************************)
ConcurrentRequest == Request(PixelShader, "main", "Pixel", DefaultOptions)

ConcurrentPath == GetCacheFilePath(ShaderFile, SourceHash(ConcurrentRequest))

\* a thread is inside the assignment m_memoryCache[filename] = std::move(entry)
Storing(t) == threads[t].pc = "storing"

threadVars == <<shader, fileTime, manager, xessVars, compilerVars>>

Step(t, name) == [op |-> "thread", thread |-> t, step |-> name]

\* a thread calls CompileFromSource(source, "main", Pixel, {}, "shaders/blur.hlsl")
Enter(t) ==
    /\ lifecycle = "initialized"
    /\ threads[t].pc = "idle"
    /\ threads' = [threads EXCEPT ![t].pc = "lookup"]
    /\ last' = Step(t, "enter")
    /\ UNCHANGED <<m_memoryCache, disk, threadVars>>

\* what unsynchronized access to one std::unordered_map may do: the access
\* goes through as if alone, the entry is left damaged, or the process faults
RaceOutcomes == {"as if alone", "damaged", "fault"}

\* an entry whose vector was moved from or freed under the reader
DamagedEntry(bytecode, hash) == CacheEntry(Resize(<< >>, Len(bytecode)), hash)

\* m_cache.GetCachedShader at the head of CompileFromSource
Lookup(t) ==
    /\ threads[t].pc = "lookup"
    /\ lifecycle # "crashed"
    /\ IF ~m_cacheEnabled
       THEN /\ threads' = [threads EXCEPT ![t].pc = "compile"]
            /\ UNCHANGED <<m_memoryCache, lifecycle>>
       ELSE \E garbage \in GarbageFor(disk, ShaderFile, SourceHash(ConcurrentRequest)),
               race \in (IF \E u \in Threads \ {t} : Storing(u) THEN RaceOutcomes ELSE {"as if alone"}) :
              LET lookup == GetCachedShader(m_memoryCache, disk, ShaderFile, SourceHash(ConcurrentRequest),
                                            << >>, TRUE, garbage)
              IN  IF race = "fault"
                  THEN /\ lifecycle' = "crashed"
                       /\ UNCHANGED <<threads, m_memoryCache>>
                  ELSE /\ lifecycle' = lifecycle
                       /\ m_memoryCache' = lookup.memoryCache
                       /\ threads' =
                            [threads EXCEPT ![t] =
                               IF lookup.ret
                               THEN Thread("done",
                                           IF race = "damaged" THEN Resize(<< >>, Len(lookup.bytecode))
                                           ELSE lookup.bytecode,
                                           TRUE, FALSE, FALSE, FALSE)
                               ELSE [@ EXCEPT !.pc = "compile"]]
    /\ last' = Step(t, "lookup")
    /\ UNCHANGED <<disk, shader, fileTime, manager, xessVars, m_dxcUtils, m_dxcCompiler, m_includeHandler,
                   m_useLegacyCompiler, m_cacheEnabled>>

\* the backend call of CompileFromSource and the test of result.success
Compile(t) ==
    /\ threads[t].pc = "compile"
    /\ lifecycle # "crashed"
    /\ LET r      == ConcurrentRequest
           legacy == UsesLegacyCompiler(m_useLegacyCompiler, r.options)
           after(result) ==
               [threads EXCEPT ![t] =
                   Thread(IF result.success /\ m_cacheEnabled THEN "open" ELSE "done",
                          result.bytecode, FALSE, TRUE, FALSE, FALSE)]
       IN  IF ~legacy /\ ~(m_dxcUtils /\ m_dxcCompiler)
           THEN /\ lifecycle' = "crashed"
                /\ UNCHANGED threads
           ELSE /\ lifecycle' = lifecycle
                /\ IF legacy
                   THEN \E d3d \in PipelineD3d :
                          threads' = after(CompileWithLegacyCompiler(r.source, r.entryPoint, r.type,
                                                                     r.options, ShaderFile, d3d))
                   ELSE \E dxc \in PipelineDxc :
                          threads' = after(CompileWithDxc(r.source, r.entryPoint, r.type, r.options, dxc))
    /\ last' = Step(t, "compile")
    /\ UNCHANGED <<m_memoryCache, disk, shader, fileTime, manager, xessVars, m_dxcUtils, m_dxcCompiler,
                   m_includeHandler, m_useLegacyCompiler, m_cacheEnabled>>

\* CacheShader: std::ofstream file(cachePath, std::ios::binary) truncates the file
Open(t) ==
    /\ threads[t].pc = "open"
    /\ lifecycle # "crashed"
    /\ disk' = MapPut(disk, ConcurrentPath, TruncatedFile(threads[t].bytecode))
    /\ threads' = [threads EXCEPT ![t].pc = "header"]
    /\ last' = Step(t, "open")
    /\ UNCHANGED <<m_memoryCache, threadVars>>

\* CacheShader: file.write of the header, at offset 0 of this thread's stream
WriteHeader(t) ==
    /\ threads[t].pc = "header"
    /\ lifecycle # "crashed"
    /\ disk' = MapPut(disk, ConcurrentPath,
                      CompleteFile(CACHE_MAGIC, CACHE_VERSION, SourceHash(ConcurrentRequest),
                                   Len(threads[t].bytecode), disk[ConcurrentPath].payload,
                                   threads[t].bytecode))
    /\ threads' = [threads EXCEPT ![t].pc = "payload"]
    /\ last' = Step(t, "write header")
    /\ UNCHANGED <<m_memoryCache, threadVars>>

\* CacheShader: file.write of the bytecode, behind the header.  When another
\* thread has truncated the file in between, the header bytes before it read
\* as zeros.
WritePayload(t) ==
    /\ threads[t].pc = "payload"
    /\ lifecycle # "crashed"
    /\ disk' = MapPut(disk, ConcurrentPath,
                      IF disk[ConcurrentPath].header = "complete"
                      THEN [disk[ConcurrentPath] EXCEPT !.payload = threads[t].bytecode,
                                                        !.origin = threads[t].bytecode]
                      ELSE CompleteFile("", 0, U64(0), 0, threads[t].bytecode, threads[t].bytecode))
    /\ threads' = [threads EXCEPT ![t].pc = "store"]
    /\ last' = Step(t, "write payload")
    /\ UNCHANGED <<m_memoryCache, threadVars>>

\* CacheShader: m_memoryCache[filename] = std::move(entry) begins.  No lock is
\* taken: another thread may be inside the same assignment.
StoreBegin(t) ==
    /\ threads[t].pc = "store"
    /\ lifecycle # "crashed"
    /\ threads' = [u \in Threads |->
                     IF u = t
                     THEN [threads[u] EXCEPT !.pc = "storing",
                                             !.raced = \E v \in Threads \ {t} : Storing(v)]
                     ELSE IF Storing(u) THEN [threads[u] EXCEPT !.raced = TRUE]
                     ELSE threads[u]]
    /\ last' = Step(t, "store begins")
    /\ UNCHANGED <<m_memoryCache, disk, threadVars>>

\* the assignment ends, CacheShader and CompileFromSource return
StoreEnd(t) ==
    /\ Storing(t)
    /\ lifecycle # "crashed"
    /\ \E race \in (IF threads[t].raced THEN RaceOutcomes ELSE {"as if alone"}) :
         IF race = "fault"
         THEN /\ lifecycle' = "crashed"
              /\ UNCHANGED <<threads, m_memoryCache>>
         ELSE /\ lifecycle' = lifecycle
              /\ m_memoryCache' =
                   MapPut(m_memoryCache, ShaderFile,
                          IF race = "damaged"
                          THEN DamagedEntry(threads[t].bytecode, SourceHash(ConcurrentRequest))
                          ELSE CacheEntry(threads[t].bytecode, SourceHash(ConcurrentRequest)))
              /\ threads' = [threads EXCEPT ![t].pc = "done", ![t].wrote = TRUE]
    /\ last' = Step(t, "return")
    /\ UNCHANGED <<disk, shader, fileTime, manager, xessVars, m_dxcUtils, m_dxcCompiler, m_includeHandler,
                   m_useLegacyCompiler, m_cacheEnabled>>

\* Initialize, called while no thread is compiling
InitializeAlone ==
    /\ \A t \in Threads : threads[t].pc = "idle"
    /\ ShaderCompiler_Initialize

NextConcurrent ==
    \/ InitializeAlone
    \/ \E t \in Threads : Enter(t)
    \/ \E t \in Threads : Lookup(t)
    \/ \E t \in Threads : Compile(t)
    \/ \E t \in Threads : Open(t)
    \/ \E t \in Threads : WriteHeader(t)
    \/ \E t \in Threads : WritePayload(t)
    \/ \E t \in Threads : StoreBegin(t)
    \/ \E t \in Threads : StoreEnd(t)

SpecConcurrent == Init /\ [][NextConcurrent]_vars

(***************************************************************************)
(* The ShaderManager's cache of compiled shaders and its eviction          *)
(***************************************************************************)
\* ShaderManagerConfig::maxCacheSize of the manager modelled
maxCacheSize == 2

\* the distinct ShaderKeys that are compiled: one more than the cache may hold
ShaderKeys == 1..(maxCacheSize + 1)

MaxClock == 2

MaxAccessCount == 1

\* a is evicted no later than b: older last access, or as old and no more accesses
EvictedBefore(a, b) ==
    \/ a.lastAccessTime < b.lastAccessTime
    \/ a.lastAccessTime = b.lastAccessTime /\ a.accessCount <= b.accessCount

\* the keys compaction may evict next, most recently used first
MostRecentlyUsed(cache) ==
    {k \in DOMAIN cache : \A j \in DOMAIN cache : EvictedBefore(cache[j], cache[k])}

\* the keys compaction may evict next: oldest lastAccessTime, among those the
\* lowest accessCount
LeastRecentlyUsed(cache) ==
    {k \in DOMAIN cache : \A j \in DOMAIN cache : EvictedBefore(cache[k], cache[j])}

MapRemove(m, k) == [x \in (DOMAIN m) \ {k} |-> m[x]]

\* ShaderManager::RemoveLeastRecentlyUsed
RemoveLeastRecentlyUsed(cache, victim) == MapRemove(cache, victim)

\* ShaderManager::RecordCacheAccess
RecordCacheAccess(cache, key, now) ==
    [cache EXCEPT ![key] = ShaderCacheEntry(now, cache[key].accessCount + 1)]

managerVars == <<shader, fileTime, threads, m_memoryCache, disk, xessVars, compilerVars>>

\* ShaderManager::GetFromCache
ShaderManager_GetFromCache ==
    \E key \in ShaderKeys :
        LET cache == manager.m_shaderCache
            hit   == key \in DOMAIN cache
        IN  /\ hit => cache[key].accessCount < MaxAccessCount
            /\ manager' = IF hit
                          THEN [manager EXCEPT !.m_shaderCache = RecordCacheAccess(cache, key, manager.now)]
                          ELSE manager
            /\ last' = [op |-> "GetFromCache", key |-> key, hit |-> hit, before |-> cache]
            /\ UNCHANGED managerVars

\* ShaderManager::AddToCache of a key not in the cache, and the compaction
\* that follows when the cache has outgrown maxCacheSize
ShaderManager_AddToCache ==
    \E key \in ShaderKeys \ DOMAIN manager.m_shaderCache :
        LET before   == manager.m_shaderCache
            full     == MapPut(before, key, ShaderCacheEntry(manager.now, 0))
            overflow == Cardinality(DOMAIN full) > maxCacheSize
        IN  \E victim \in (IF overflow THEN LeastRecentlyUsed(full) ELSE {key}) :
              /\ manager' = [manager EXCEPT !.m_shaderCache =
                                IF overflow THEN RemoveLeastRecentlyUsed(full, victim) ELSE full]
              /\ last' = [op |-> "AddToCache", key |-> key, before |-> before, full |-> full,
                          overflow |-> overflow, evicted |-> IF overflow THEN {victim} ELSE {}]
              /\ UNCHANGED managerVars

RECURSIVE Compact(_)
\* the loop of CompactCache; among entries equally old and equally often
\* used the order of the map decides
Compact(cache) ==
    IF Cardinality(DOMAIN cache) <= maxCacheSize THEN cache
    ELSE Compact(RemoveLeastRecentlyUsed(cache, CHOOSE k \in LeastRecentlyUsed(cache) : TRUE))

\* ShaderManager::CompactCache
ShaderManager_CompactCache ==
    /\ manager' = [manager EXCEPT !.m_shaderCache = Compact(manager.m_shaderCache)]
    /\ last' = [op |-> "CompactCache", before |-> manager.m_shaderCache]
    /\ UNCHANGED managerVars

\* ShaderManager::ClearCache, the manager's own map
ShaderManager_ClearCache ==
    /\ manager' = [manager EXCEPT !.m_shaderCache = EmptyMap]
    /\ last' = [op |-> "ShaderManager::ClearCache", before |-> manager.m_shaderCache]
    /\ UNCHANGED managerVars

\* system_clock moves on
Tick ==
    /\ manager.now < MaxClock
    /\ manager' = [manager EXCEPT !.now = @ + 1]
    /\ last' = [op |-> "tick"]
    /\ UNCHANGED managerVars

NextManager ==
    \/ ShaderManager_GetFromCache
    \/ ShaderManager_AddToCache
    \/ ShaderManager_CompactCache
    \/ ShaderManager_ClearCache
    \/ Tick

SpecManager == Init /\ [][NextManager]_vars

(***************************************************************************)
(* The XeSSContext: Initialize, Execute, Shutdown, and the XeSS library    *)
(***************************************************************************)
OutputResolutions == {Resolution(0, 0), Resolution(1920, 1080), Resolution(3840, 2160)}

QualityModes == {"Performance", "Quality"}

\* what xessGetInputResolution answers
NativeInputResolutions == {Resolution(960, 540), Resolution(1280, 720)}

\* what a call of the XeSS library returns: XESS_RESULT_SUCCESS, a warning
\* (greater than it), an error (less than it)
NativeResults == {"success", "warning", "error"}

\* ThrowIfXeSSFailed: whether it throws
ThrowIfXeSSFailed(result) == result = "error"

notXessVars == <<shader, fileTime, threads, manager, m_memoryCache, disk, compilerVars>>

\* the handle xessD3D11CreateContext hands out: a context that is not alive
FreshHandle == CHOOSE h \in Handles \ nativeContexts : \A g \in Handles \ nativeContexts : h <= g

\* XeSSContext::Initialize with CreateContext, InitializeXeSS and
\* QueryInputResolution.  create, init, query: what the three library calls
\* return; failed: the step whose exception leaves Initialize
XeSSContext_Initialize ==
    \E outputResolution \in OutputResolutions, quality \in QualityModes,
       create \in NativeResults, init \in NativeResults, query \in NativeResults,
       inputRes \in NativeInputResolutions :
        LET named   == [xessContext EXCEPT !.m_outputResolution = outputResolution,
                                           !.m_quality = quality,
                                           !.m_initFlags = "HighResMotionVectors"]
            created == [named EXCEPT !.m_context = FreshHandle]
            failed  == IF xessContext.m_initialized THEN "none"
                       ELSE IF ~ResolutionIsValid(outputResolution) THEN "resolution"
                       ELSE IF ThrowIfXeSSFailed(create) THEN "create"
                       ELSE IF ThrowIfXeSSFailed(init) THEN "init"
                       ELSE IF ThrowIfXeSSFailed(query) THEN "query"
                       ELSE "none"
            creates == ~xessContext.m_initialized /\ failed \notin {"resolution", "create"}
        IN  /\ creates => Handles \ nativeContexts # {}
            /\ xessContext' =
                  IF xessContext.m_initialized \/ failed = "resolution" THEN xessContext
                  ELSE IF failed = "create" THEN named
                  ELSE IF failed \in {"init", "query"} THEN created
                  ELSE [created EXCEPT !.m_inputResolution = inputRes, !.m_initialized = TRUE]
            /\ nativeContexts' = IF creates THEN nativeContexts \cup {FreshHandle} ELSE nativeContexts
            /\ last' = [op |-> "XeSSContext::Initialize", already |-> xessContext.m_initialized,
                        threw |-> (failed # "none"), failed |-> failed,
                        \* the handle the call found in m_context was of a live context
                        \* and has been overwritten
                        overwrote |-> (creates /\ xessContext.m_context \in nativeContexts)]
            /\ UNCHANGED notXessVars

\* XeSSContext::Shutdown.  result: what xessDestroyContext returns; a failed
\* destroy leaves the library's context alive
Shutdown(context, contexts, result) ==
    IF ~context.m_initialized THEN [context |-> context, contexts |-> contexts, destroyed |-> FALSE]
    ELSE [context   |-> [context EXCEPT !.m_context = NullHandle, !.m_initialized = FALSE],
          contexts  |-> IF context.m_context # NullHandle /\ result # "error"
                        THEN contexts \ {context.m_context} ELSE contexts,
          destroyed |-> (context.m_context # NullHandle /\ result # "error")]

XeSSContext_Shutdown ==
    \E result \in {"success", "error"} :
        LET r == Shutdown(xessContext, nativeContexts, result)
        IN  /\ xessContext' = r.context
            /\ nativeContexts' = r.contexts
            /\ last' = [op |-> "XeSSContext::Shutdown", initialized |-> xessContext.m_initialized,
                        destroyed |-> r.destroyed, held |-> xessContext.m_context]
            /\ UNCHANGED notXessVars

\* XeSSContext::~XeSSContext, and the construction of the next XeSSContext
XeSSContext_Destroy ==
    \E result \in {"success", "error"} :
        LET r == Shutdown(xessContext, nativeContexts, result)
        IN  /\ xessContext' = NewXeSSContext
            /\ nativeContexts' = r.contexts
            /\ last' = [op |-> "~XeSSContext", initialized |-> xessContext.m_initialized,
                        destroyed |-> r.destroyed, held |-> xessContext.m_context]
            /\ UNCHANGED notXessVars

\* XeSSContext::Execute.  outputTexture: params.outputTexture is non-null;
\* result: what xessD3D11Execute returns
XeSSContext_Execute ==
    \E outputTexture \in BOOLEAN, result \in NativeResults :
        LET called == xessContext.m_initialized /\ outputTexture
        IN  /\ last' = [op |-> "XeSSContext::Execute", initialized |-> xessContext.m_initialized,
                        nativeCalled |-> called,
                        handle |-> IF called THEN xessContext.m_context ELSE NullHandle,
                        threw |-> (~called \/ ThrowIfXeSSFailed(result))]
            /\ UNCHANGED <<xessVars, notXessVars>>

\* the process ends: the library's contexts go with it
XeSSProcessEnds ==
    /\ xessContext' = NewXeSSContext
    /\ nativeContexts' = {}
    /\ last' = [op |-> "XeSS process ends"]
    /\ UNCHANGED notXessVars

NextXeSS ==
    \/ XeSSContext_Initialize
    \/ XeSSContext_Shutdown
    \/ XeSSContext_Execute
    \/ XeSSContext_Destroy
    \/ XeSSProcessEnds

SpecXeSS == Init /\ [][NextXeSS]_vars

(***************************************************************************)
(* Properties of the pipeline and of the cache                             *)
(***************************************************************************)
\* the last call was a compile that returned
Compiled == last.op \in {"CompileFromSource", "CompileFromFile"} /\ ~last.fault

\* the call before it was the same compile, looked the key up, missed, and
\* its backend succeeded
AfterMissThatSucceeded ==
    /\ last.op = "CompileFromSource" /\ ~last.fault
    /\ last.consulted
    /\ last.previous.same /\ last.previous.consulted
    /\ ~last.previous.hit /\ last.previous.success

IsCacheHit ==
    /\ last.hit
    /\ last.result.success
    /\ last.result.bytecode = last.previous.bytecode
    /\ last.backend = "none"

RecordMismatch == Compiled /\ last.consulted /\ last.record \in {"wrong magic", "wrong version", "wrong fingerprint"}

Recompiled == ~last.hit /\ last.backend \in {"legacy", "dxc"}

\* C3 as stated: a record with a wrong magic, version or fingerprint makes the
\* lookup miss, and CompileFromSource recompiles and returns the backend's result.
C3_MismatchIsMiss == RecordMismatch => Recompiled

\* C3, amended: the same, when the memory tier holds no entry with the
\* requested fingerprint for the name (the memory tier is asked first, and
\* answers without reading the record).
C3_MismatchIsMissOnDiskRead == (RecordMismatch /\ ~last.inMemory) => Recompiled

C3_Witness ==
    /\ RecordMismatch /\ ~last.inMemory
    /\ Recompiled
    /\ last.result.success

\* C4: a record cut short inside its header, or holding fewer payload bytes
\* than its size field says, makes the lookup miss and the pipeline recompile
\* (stated for lookups the memory tier does not answer).
C4_TruncatedIsMiss ==
    (Compiled /\ last.consulted /\ ~last.inMemory /\ last.record \in {"header cut", "payload cut"})
        => Recompiled

\* C7: the compile that follows a missed, failed compile of the same key
\* misses again and calls the backend again.
C7_FailedCompileNotCached ==
    (/\ Compiled /\ last.consulted
     /\ last.previous.same /\ last.previous.consulted
     /\ ~last.previous.hit /\ ~last.previous.success)
        => Recompiled

\* C10: a CompileFromFile call on a missing or unreadable file returns a
\* failure whose only error names the file; it throws nothing, calls no
\* backend, does not look the key up in the cache and leaves both cache tiers
\* as they were.
C10_MissingFile ==
    [][(last'.op = "CompileFromFile" /\ last'.file \in {"missing", "read throws"})
          => /\ ~last'.fault
             /\ ~last'.result.success
             /\ last'.result.errors = <<"Failed to load shader file: " \o FullName(last'.sourceName)>>
             /\ last'.backend = "none"
             /\ ~last'.consulted
             /\ last'.write = NoWrite
             /\ UNCHANGED <<m_memoryCache, disk>>]_vars

C10_Witness ==
    /\ last.op = "CompileFromFile" /\ last.file = "read throws"
    /\ ~last.result.success
    /\ last.result.errors = <<"Failed to load shader file: shaders/blur.hlsl">>
    /\ disk # EmptyMap
    /\ m_cacheEnabled

\* the object code the backend of the last compile produced for its request
BackendBytecode ==
    LET r == last.request
    IN  IF last.backend = "dxc"
        THEN ToolchainOutput(r.source, r.entryPoint, r.options.macros,
                             GetTargetProfile(r.type, r.options.targetModel),
                             BuildCompilerArguments(r.options))
        ELSE ToolchainOutput(r.source, r.entryPoint, r.options.macros, LegacyProfile(r.type),
                             LegacyFlags(r.options))

\* C11: a compile whose cache write could not create the cache directory or
\* open the cache file throws nothing and returns success = true with the
\* bytecode its backend produced.
C11_WriteFailureNotFatal ==
    (/\ last.op \in {"CompileFromSource", "CompileFromFile"}
     /\ last.backend # "none"
     /\ "write" \in DOMAIN last
     /\ last.write.kind \in {"create_directories throws", "open fails"})
        => /\ ~last.fault
           /\ last.result.success
           /\ last.result.bytecode = BackendBytecode

C11_Witness ==
    /\ Compiled
    /\ last.write.kind = "create_directories throws"
    /\ last.result.success
    /\ last.result.bytecode = BackendBytecode
    /\ m_memoryCache = EmptyMap

BothTiersEmpty ==
    /\ \A filename \in CacheFileNames, hash \in Fingerprints :
          \A garbage \in GarbageFor(disk, filename, hash) :
              ~GetCachedShader(m_memoryCache, disk, filename, hash, << >>, TRUE, garbage).ret
    /\ disk = EmptyMap

C5_EveryInputCounts == last.op = "CalculateSourceHash" => last.hashA # last.hashB

(***************************************************************************)
(* Properties of the backends                                              *)
(***************************************************************************)
\* C6: a compile that returns success = false returns at least one error.
C6_FailureHasErrors == (Compiled /\ ~last.result.success) => last.result.errors # << >>

ModernInitialized == m_dxcUtils /\ m_dxcCompiler /\ m_includeHandler

\* C8: between Initialize and Shutdown, a compile that is not served from the
\* cache goes to DXC exactly when DXC was initialized and the tier is 6.0 or
\* above, and to the legacy compiler otherwise.
C8_BackendSelection ==
    (last.op = "CompileFromSource" /\ last.state = "initialized" /\ last.backend # "none")
        => /\ last.request.options.targetModel \in ShaderModel
           /\ last.backend = IF ModernInitialized /\ last.request.options.targetModel >= SM_6_0
                             THEN "dxc" ELSE "legacy"
           /\ ~last.fault

C8_Witness ==
    /\ last.op = "CompileFromSource" /\ last.state = "initialized"
    /\ ModernInitialized
    /\ last.request.options.targetModel = SM_6_0
    /\ last.backend = "dxc"
    /\ ~last.fault /\ last.result.success

C18_UnsupportedTypeFails ==
    (Compiled /\ last.backend # "none" /\ last.request.type \notin LegacyTypes)
        => (~last.result.success /\ last.result.errors # << >>)

\* C19: in legacy mode, a compile for a tier IsShaderModelSupported rejects
\* returns success = false with an error.
C19_UnsupportedTierFails ==
    (/\ Compiled /\ last.backend # "none"
     /\ m_useLegacyCompiler
     /\ ~IsShaderModelSupported(m_useLegacyCompiler, last.request.options.targetModel))
        => (~last.result.success /\ last.result.errors # << >>)

\* C20: a compile on a ShaderCompiler on which Initialize has not been called
\* ends in a fault and returns no CompiledShader.
C20_CompileBeforeInitializeFaults ==
    (last.op \in {"CompileFromSource", "CompileFromFile"} /\ last.state = "constructed") => last.fault

(***************************************************************************)
(* Properties of the Shader wrapper                                        *)
(***************************************************************************)
\* C13: a Bind called when the work of LoadFromFileAsync has completed ends
\* the load: IsLoadingComplete() is true afterwards.
C13_PollEndsLoading == (last.op = "Bind" /\ last.workDone) => ~shader.m_isLoading

\* C14: whenever the Shader holds a compiled result, the type, entry point and
\* options it reports are those of the load request the result was compiled for.
C14_MembersMatchResult == ~shader.m_shader.null => shader.m_shader.request = Members(shader)

\* C15: a CheckForReload that follows one that reloaded, with the file time
\* unchanged in between, does not reload again.
C15_ReloadOncePerChange == (last.op = "CheckForReload" /\ last.again) => ~last.reloaded

(***************************************************************************)
(* Properties of concurrent compiles                                       *)
(***************************************************************************)
\* every thread has returned, and each missed, called the backend and wrote
AllMissedAndWrote ==
    \A t \in Threads : threads[t].pc = "done" /\ ~threads[t].hit /\ threads[t].compiled /\ threads[t].wrote

\* C16: concurrent compiles of one key run to the end, and when each of them
\* missed, compiled and wrote, the memory tier and the directory hold one
\* complete record of the key: the one written by the thread that returned last.
C16_LastWriterWins ==
    /\ lifecycle # "crashed"
    /\ (last.op = "thread" /\ last.step = "return" /\ AllMissedAndWrote) =>
          /\ m_memoryCache[ShaderFile] =
                CacheEntry(threads[last.thread].bytecode, SourceHash(ConcurrentRequest))
          /\ disk[ConcurrentPath] =
                CompleteFile(CACHE_MAGIC, CACHE_VERSION, SourceHash(ConcurrentRequest),
                             Len(threads[last.thread].bytecode), threads[last.thread].bytecode,
                             threads[last.thread].bytecode)

C21_DoubleInitializeFaults ==
    (last.op = "Initialize" /\ last.state = "initialized") => lifecycle = "crashed"

\* C25: within one process, no step takes a compiler that has fallen back to
\* the legacy backend out of the fallback, so that its later compiles are all
\* dispatched to the legacy backend.
C25_FallbackIsPermanent ==
    [][(m_useLegacyCompiler /\ last'.op # "new process") => m_useLegacyCompiler']_vars

(***************************************************************************)
(* Properties of the diagnostics                                           *)
(***************************************************************************)
\* C22: in every CompiledShader a backend produced, warnings are there only
\* when success is true, and the toolchain's diagnostic text is among the
\* errors only when success is false.
C22_WarningsOnlyOnSuccess ==
    (Compiled /\ last.backend # "none") =>
        /\ last.result.warnings # << >> => last.result.success
        /\ (\E i \in DOMAIN last.result.errors : last.result.errors[i] = DiagnosticText) =>
              ~last.result.success

(***************************************************************************)
(* Properties of the fingerprint and of the cache file names               *)
(***************************************************************************)
\* C23: the fingerprint of a source with a macro list differs from the
\* fingerprint of the same source and options with two of the macros swapped.
C23_MacroOrderCounts == last.op = "fingerprints" => last.hashA # last.hashB

\* the fingerprints of a list of three macros and of the list with its first
\* and last entry swapped have been computed
C23_Witness ==
    /\ last.op = "fingerprints"
    /\ Len(last.a.macros) = 3
    /\ last.a.macros[1] = last.b.macros[3]
    /\ last.a.macros[2] = last.b.macros[2]
    /\ last.a.macros[1].name = last.a.macros[3].name

\* fingerprints whose digits differ in number, in leading and in inner zeros
PathFingerprints ==
    Fingerprints \cup {U64(0), U64(1), U64(16), U64(17), <<0, 1, 0, 0>>, <<1, 0, 0, 1>>, <<0, 0, 0, 1>>}

\* the paths of the cache files, computed once
PathTable == [f \in CacheFileNames |-> [h \in PathFingerprints |-> GetCacheFilePath(f, h)]]

PathsDiffer ==
    \A f \in CacheFileNames : \A h1 \in PathFingerprints, h2 \in PathFingerprints :
        h1 # h2 => PathTable[f][h1] # PathTable[f][h2]

\* C24: for one shader name two different fingerprints have two different
\* cache file paths, and a CacheShader call for one fingerprint leaves the
\* records of the name's other fingerprints as they were.
C24_FingerprintsDoNotCollide ==
    [][last'.op = "CacheShader" =>
          /\ PathsDiffer
          /\ \A h \in Fingerprints \ {last'.hash} :
                PathTable[last'.filename][h] \in DOMAIN disk =>
                   /\ PathTable[last'.filename][h] \in DOMAIN disk'
                   /\ disk'[PathTable[last'.filename][h]] = disk[PathTable[last'.filename][h]]]_vars

\* a CacheShader call has written a record while the directory holds an
\* intact record of the same name under another fingerprint
C24_Witness ==
    /\ last.op = "CacheShader"
    /\ last.outcome.kind = "written"
    /\ \E h \in Fingerprints \ {last.hash} :
          /\ RecordState(disk, last.filename, h) = "intact"
          /\ RecordState(disk, last.filename, last.hash) = "intact"

(***************************************************************************)
(* Properties of synchronous loads and of hot reload                       *)
(***************************************************************************)
\* C26: when LoadFromFile or LoadFromSource has returned, IsLoading() is
\* false and IsValid() is the value the call returned.
C26_SynchronousLoadResolves ==
    last.op \in {"LoadFromFile", "LoadFromSource"} =>
        /\ ~shader.m_isLoading
        /\ IsValid(shader) = last.ret

\* C28: CheckForReload reloads exactly when hot reload was enabled, a source
\* file was recorded and the file exists with a modification time greater than
\* the recorded one; otherwise it leaves the Shader as it was.
C28_ReloadOnlyWhenNewer ==
    last.op = "CheckForReload" =>
        LET recorded == last.before.m_sourceFile
            exists   == recorded = ShaderSourceFile /\ fileTime # 0
            due      == /\ last.before.m_hotReloadEnabled
                        /\ recorded # EmptyName
                        /\ exists
                        /\ fileTime > last.before.m_lastFileTime
        IN  /\ last.reloaded <=> due
            /\ ~due => shader = last.before

\* CheckForReload has left alone a Shader with hot reload enabled whose file
\* has the time recorded at the last successful load
C28_Witness ==
    /\ last.op = "CheckForReload"
    /\ ~last.reloaded
    /\ last.before.m_hotReloadEnabled
    /\ last.before.m_sourceFile = ShaderSourceFile
    /\ fileTime = last.before.m_lastFileTime
    /\ fileTime # 0
    /\ IsValid(shader)

\* C29: a CheckForReload called while an asynchronous load is in flight starts
\* no load and leaves the compiled result that is held.
C29_NoReloadWhileLoading ==
    (last.op = "CheckForReload" /\ last.before.m_isLoading) =>
        /\ ~last.reloaded
        /\ shader.m_shader = last.before.m_shader

(***************************************************************************)
(* Properties of the two tiers                                             *)
(***************************************************************************)
\* C27: after GetCachedShader(f, h) returned true from the disk record, the
\* memory tier holds for f the fingerprint h and the bytecode returned, and a
\* GetCachedShader(f, h) over an emptied directory returns that bytecode.
C27_DiskReadRepopulatesMemory ==
    (last.op = "GetCachedShader" /\ last.ret /\ last.tier = "disk") =>
        /\ last.filename \in DOMAIN m_memoryCache
        /\ m_memoryCache[last.filename] = CacheEntry(last.bytecode, last.hash)
        /\ LET again == GetCachedShader(m_memoryCache, EmptyMap, last.filename, last.hash, << >>, TRUE,
                                        Outcome("mismatch", 0))
           IN  again.ret /\ again.bytecode = last.bytecode /\ again.tier = "memory"

\* a lookup over an empty memory tier has returned the bytecode of an intact record
C27_Witness ==
    /\ last.op = "GetCachedShader"
    /\ last.ret
    /\ last.tier = "disk"
    /\ last.emptyMemory
    /\ last.record = "intact"
    /\ last.bytecode \in Bytecodes

(***************************************************************************)
(* Properties of the threads                                               *)
(***************************************************************************)
\* C30: no two threads are at the same time inside the insert into the
\* memory cache map.
C30_CacheMutationSerialized ==
    \A t \in Threads, u \in Threads : (t # u /\ Storing(t)) => ~Storing(u)

(***************************************************************************)
(* Properties of the asynchronous load                                     *)
(***************************************************************************)
\* C31: the destructor leaves no task running, and no other public operation
\* of the Shader waits for a task: LoadFromFileAsync returns without waiting.
C31_OnlyTeardownWaits ==
    /\ last.op = "~Shader" => ~last.dangling
    /\ last.op = "LoadFromFileAsync" => ~last.waited

\* C37: a CheckForReload on a Shader with hot reload enabled that is Ready on
\* a text read before the file's present modification time reloads the file.
C37_NoChangeLost ==
    (/\ last.op = "CheckForReload"
     /\ last.before.m_hotReloadEnabled
     /\ last.before.m_sourceFile = ShaderSourceFile
     /\ IsValid(last.before)
     /\ ~last.before.m_isLoading
     /\ last.before.m_shader.request.sourceFile = ShaderSourceFile
     /\ last.before.m_shader.version < fileTime) => last.reloaded

\* C38: when a Bind has taken the result of an asynchronous load, the result
\* held was compiled for the load request the Shader's members describe,
\* which is the one issued last.
C38_LatestRequestWins ==
    (last.op = "Bind" /\ last.took /\ ~shader.m_shader.null) => shader.m_shader.request = Members(shader)

(***************************************************************************)
(* Properties of the cache key                                             *)
(***************************************************************************)
\* the object code a compile of a request produces, by either backend
Programs(request) ==
    {ToolchainOutput(request.source, request.entryPoint, request.options.macros,
                     GetTargetProfile(request.type, request.options.targetModel),
                     BuildCompilerArguments(request.options)),
     ToolchainOutput(request.source, request.entryPoint, request.options.macros,
                     LegacyProfile(request.type), LegacyFlags(request.options))}

\* C32: the bytecode a cache hit returns is the object code of a compile with
\* the same source, entry point, shader type and compile options.
C32_HitIsSameProgram ==
    (last.op = "CompileFromSource" /\ ~last.fault /\ last.hit /\ last.request \in KeyRequests)
        => last.result.bytecode \in Programs(last.request)

(***************************************************************************)
(* Properties of the cache under several names                             *)
(***************************************************************************)
\* C33: when every record was stored under one filename, a lookup under a
\* different filename returns no bytecode, from either tier.
C33_NamesAreIsolated ==
    (last.op = "GetCachedShader" /\ last.filename # StoredName) => ~last.ret

(***************************************************************************)
(* Properties of several fingerprints under one name                       *)
(***************************************************************************)
\* a lookup when the record of the key is in place as CacheShader wrote it
LookupIntact(mem, filename, hash) ==
    GetCachedShader(mem, disk, filename, hash, << >>, TRUE, Outcome("mismatch", 0))

C35_FailedResultIsEmpty ==
    (last.op \in {"CompileFromSource", "CompileFromFile"} /\ ~last.fault) =>
        /\ ~last.result.success => /\ last.result.bytecode = << >>
                                   /\ last.result.reflection = EmptyReflection
        /\ last.result.extracted <=> last.result.success

\* a compile has failed in a backend with diagnostics and its result was returned
C35_Witness ==
    /\ last.op \in {"CompileFromSource", "CompileFromFile"} /\ ~last.fault
    /\ ~last.result.success /\ last.backend # "none"
    /\ last.result.errors = <<DiagnosticText>>
    /\ ~last.result.extracted

(***************************************************************************)
(* Properties of the backend dispatch over the compiler's life             *)
(***************************************************************************)
\* C36: a compile that is dispatched to DXC on an initialized compiler, or
\* right after the Shutdown of an initialized compiler, finds the three DXC
\* handles non-null.
C36_ModernOnlyWithHandles ==
    [][(/\ last'.op = "CompileFromSource"
        /\ last'.backend = "dxc"
        /\ \/ last'.state = "initialized"
           \/ last'.state = "shut down" /\ last.op = "Shutdown" /\ last.state = "initialized")
          => (m_dxcUtils /\ m_dxcCompiler /\ m_includeHandler)]_vars

(***************************************************************************)
(* Properties of the XeSSContext                                           *)
(***************************************************************************)
\* C39: an XeSSContext that is not initialized holds the null handle; an
\* Initialize never overwrites the handle of a live context; an Execute on a
\* context that is not initialized throws without a call of the library.
C39_HandleOnlyWhileInitialized ==
    /\ ~xessContext.m_initialized => xessContext.m_context = NullHandle
    /\ last.op = "XeSSContext::Initialize" => ~last.overwrote
    /\ (last.op = "XeSSContext::Execute" /\ ~last.initialized) => (last.threw /\ ~last.nativeCalled)

====
